---- MODULE Spec2Model ----
(***************************************************************************)
(* A model of dopplerconfig's configuration resolution engine.             *)
(*                                                                         *)
(* The loader (loader.go) is modelled at the granularity of the            *)
(* statements of loadFromProvider that touch shared state: every           *)
(* goroutine owns a call stack of loadFromProvider frames (a change        *)
(* callback may call back into the loader, which pushes a frame), and the  *)
(* loader's fields current, metadata, callbacks and mu are the shared      *)
(* state.  Providers are external collaborators: a Fetch returns either    *)
(* (nil, err) or (a non-nil flat map, nil), as DopplerProvider,            *)
(* FileProvider, EnvProvider and MockProvider all do.                      *)
(*                                                                         *)
(* The target type T is a tree of exported fields; unmarshalStruct skips   *)
(* unexported ones, so they are not part of a schema here.                 *)
(***************************************************************************)
EXTENDS Integers, Sequences, FiniteSets, TLC

VARIABLES
    T,          \* the type parameter of loader[T]: a sequence of field descriptors
    provider,   \* l.provider != nil
    fallback,   \* l.fallback != nil
    policy,     \* l.bootstrap.FailurePolicy
    mu,         \* l.mu: the goroutine holding the write lock, or NoProc
    current,    \* l.current
    metadata,   \* l.metadata
    callbacks,  \* l.callbacks
    stack,      \* per goroutine: its stack of loadFromProvider frames
    calls,      \* number of Load/Reload calls started so far (also the allocator of *T)
    served,     \* the payloads the configuration sources can serve in this run
    arg,        \* the input of a function under study (mapper, coercion, validation)
    result,     \* its result, NotRun before the call
    watcher,    \* a Watcher or MultiTenantWatcher with the goroutines around it
    tenants,    \* a multiTenantLoader with the goroutines calling it
    shared      \* a provider or a FeatureFlags with the goroutines sharing it

vars == <<T, provider, fallback, policy, mu, current, metadata, callbacks, stack, calls,
          served, arg, result, watcher, tenants, shared>>

-----------------------------------------------------------------------------
(* Bounds *)

\* Load/Reload calls (nested ones included) over one behaviour.
MaxLoads == 3
\* Registered callbacks.
MaxCallbacks == 2

\* No function is under study in the runs of the loader.
NoArg == "-"
\* No watcher is part of the run.
NoWatcher == [kind |-> "none"]
\* No multi-tenant loader is part of the run.
NoTenants == [kind |-> "none"]
\* No provider and no FeatureFlags is part of the run.
NoShared == [kind |-> "none"]
NotRun == [done |-> FALSE, val |-> FALSE]
Ran(val) == [done |-> TRUE, val |-> val]

Procs == {"g1", "g2"}
NoProc == "none"
CallbackIds == {"cbA", "cbB"}

-----------------------------------------------------------------------------
(* bootstrap: FailurePolicy *)

FailurePolicyFail == 0
FailurePolicyFallback == 1
FailurePolicyWarn == 2
FailurePolicies == {FailurePolicyFail, FailurePolicyFallback, FailurePolicyWarn}

PrimaryName == "doppler"
FallbackName == "file"

-----------------------------------------------------------------------------
(* Flat config maps *)

Keys == {"SERVER_PORT", "DATABASE_URL"}
Vals == {"", "9090", "abc"}
FlatMaps == UNION {[D -> Vals] : D \in SUBSET Keys}
EmptyMap == [k \in {} |-> ""]
\* The payloads of the two-goroutine runs: one that sets both fields, and
\* one that leaves Port to its default.
SharedPayloads ==
    { [k \in Keys |-> IF k = "SERVER_PORT" THEN "9090" ELSE "abc"],
      [k \in {"DATABASE_URL"} |-> "abc"] }

\* A Go map[string]string variable: nil, or a map.
NilValues == [nil |-> TRUE, kv |-> EmptyMap]
MapValues(m) == [nil |-> FALSE, kv |-> m]
\* len(values)
KeyCountOf(values) == Cardinality(DOMAIN values.kv)

-----------------------------------------------------------------------------
(* The target type T: struct fields with their tags *)

\* A leaf field with its doppler, env, default and required tags ("" when the
\* tag is not set).
LeafEnv(name, kind, doppler, env, default, required) ==
    [Name |-> name, Kind |-> kind, Anonymous |-> FALSE, doppler |-> doppler,
     env |-> env, default |-> default, required |-> required, Fields |-> <<>>]
Leaf(name, kind, doppler, default, required) ==
    LeafEnv(name, kind, doppler, "", default, required)
Struct(name, anonymous, fields) ==
    [Name |-> name, Kind |-> "struct", Anonymous |-> anonymous, doppler |-> "",
     env |-> "", default |-> "", required |-> "", Fields |-> fields]

\* TestConfig of the loader tests, reduced to two of its fields.
TestConfig ==
    << Struct("Server", FALSE, << Leaf("Port", "int", "SERVER_PORT", "8080", "") >>),
       Struct("Database", FALSE, << Leaf("URL", "string", "DATABASE_URL", "", "true") >>) >>
\* A type whose required field declares a default, and an int field without one.
DefaultedConfig ==
    << Leaf("Port", "int", "SERVER_PORT", "", ""),
       Leaf("URL", "string", "DATABASE_URL", "abc", "true") >>
\* A type without required fields; the default of Port does not parse.
OptionalConfig ==
    << Leaf("Port", "int", "SERVER_PORT", "abc", ""),
       Struct("Base", TRUE, << Leaf("URL", "string", "DATABASE_URL", "", "false") >>) >>
Schemas == {TestConfig, DefaultedConfig, OptionalConfig}

\* EnvTagConfig and DualTagConfig of the loader tests, a type that names two
\* different keys in its two tags, and one without tags.
EnvTagConfig ==
    << LeafEnv("Port", "int", "", "PORT", "8080", ""),
       LeafEnv("LogLevel", "string", "", "LOG_LEVEL", "info", ""),
       LeafEnv("Name", "string", "SERVICE_NAME", "", "", "") >>
DualTagConfig == << LeafEnv("Port", "int", "PORT", "PORT", "3000", "") >>
TwoKeysConfig == << LeafEnv("Port", "int", "SERVER_PORT", "PORT", "3000", "") >>
UntaggedConfig == << Leaf("Port", "int", "", "", "") >>
TagSchemas == {EnvTagConfig, DualTagConfig, TwoKeysConfig, UntaggedConfig}

-----------------------------------------------------------------------------
(* setFieldValue: coercion of a raw string to the field's type *)

\* strconv.ParseInt(s, 10, 64) on the strings of the model.
IntLiterals == {"8080", "9090", "3000", "4000"}
ParseInt(s) ==
    CASE s = "8080" -> [ok |-> TRUE, v |-> 8080]
      [] s = "9090" -> [ok |-> TRUE, v |-> 9090]
      [] s = "3000" -> [ok |-> TRUE, v |-> 3000]
      [] s = "4000" -> [ok |-> TRUE, v |-> 4000]
      [] OTHER -> [ok |-> FALSE, v |-> 0]

ZeroValue(kind) == IF kind = "int" THEN 0 ELSE ""

setFieldValue_Silent(kind, s) ==
    CASE kind = "string" -> [ok |-> TRUE, v |-> s]
      [] kind = "int" -> [ok |-> TRUE, v |-> ParseInt(s).v]
      [] OTHER -> [ok |-> FALSE, v |-> ZeroValue(kind)]

setFieldValue(kind, s) ==
    CASE kind = "string" -> [ok |-> TRUE, v |-> s]
      [] kind = "int" -> ParseInt(s)
      [] OTHER -> [ok |-> FALSE, v |-> ZeroValue(kind)]

-----------------------------------------------------------------------------
(* unmarshalConfig / unmarshalStruct *)

\* The leaf fields of a type, by path; new(T) holds the zero value of each.
RECURSIVE LeafPaths(_, _)
LeafPaths(fields, prefix) ==
    IF fields = <<>> THEN {}
    ELSE LET field == Head(fields)
             here == IF field.Kind = "struct"
                     THEN LeafPaths(field.Fields,
                                    IF field.Anonymous THEN prefix
                                    ELSE prefix \o field.Name \o ".")
                     ELSE {<<prefix \o field.Name, field.Kind>>}
         IN  here \cup LeafPaths(Tail(fields), prefix)

NewT(fields) ==
    LET leaves == LeafPaths(fields, "")
    IN  [path \in {l[1] : l \in leaves} |->
            ZeroValue((CHOOSE l \in leaves : l[1] = path)[2])]

\* Check required: the tag must read "true" and neither the map nor a default
\* supplied a value.
MissingRequired_Never(field, exists) == FALSE
MissingRequired(field, exists) == field.required = "true" /\ ~exists

\* Use default if not found: the key is absent or its value is the empty
\* string, and the field declares a default.
UseDefault_WhenDeclared(field, found, rawValue) == field.default /= ""
UseDefault(field, found, rawValue) ==
    (~found \/ rawValue = "") /\ field.default /= ""

\* acc = [f |-> field values, warnings |-> seq, err |-> "" or the error].
RECURSIVE unmarshalStruct(_, _, _, _)
unmarshalStruct(values, fields, prefix, acc) ==
    IF fields = <<>> \/ acc.err /= "" THEN acc
    ELSE
      LET field == Head(fields)
          rest == Tail(fields)
      IN
      IF field.Kind = "struct"
      THEN \* embedded structs keep the prefix, named ones extend it
           LET newPrefix == IF field.Anonymous THEN prefix
                            ELSE prefix \o field.Name \o "."
           IN  unmarshalStruct(values, rest, prefix,
                               unmarshalStruct(values, field.Fields, newPrefix, acc))
      ELSE
        LET dopplerKey == IF field.doppler = "" THEN prefix \o field.Name
                          ELSE field.doppler
            found == dopplerKey \in DOMAIN values
            raw0 == IF found THEN values[dopplerKey] ELSE ""
            useDefault == UseDefault(field, found, raw0)
            rawValue == IF useDefault THEN field.default ELSE raw0
            exists == found \/ useDefault
            path == prefix \o field.Name
        IN
        IF MissingRequired(field, exists)
        THEN [acc EXCEPT !.err = "required field " \o field.Name \o " not found"]
        ELSE IF ~exists \/ rawValue = ""
        THEN unmarshalStruct(values, rest, prefix, acc)
        ELSE LET set == setFieldValue(field.Kind, rawValue)
             IN  unmarshalStruct(values, rest, prefix,
                    IF set.ok
                    THEN [acc EXCEPT !.f[path] = set.v]
                    ELSE [acc EXCEPT !.warnings = Append(@, "failed to set " \o field.Name)])

unmarshalConfig(values, fields) ==
    unmarshalStruct(values, fields, "", [f |-> NewT(fields), warnings |-> <<>>, err |-> ""])

-----------------------------------------------------------------------------
(* loader[T] state *)

\* A *T: ptr = 0 is the nil pointer, otherwise the allocation made by new(T).
NilCfg == [ptr |-> 0, f |-> EmptyMap]
ZeroMetadata == [Source |-> "", KeyCount |-> 0, Warnings |-> <<>>, of |-> 0]

\* Current() and Metadata() take the read lock, which a writer excludes.
Current == current
Metadata == metadata
ReadLockFree == mu = NoProc

\* What a call saw on entry; kept, as history, while the call can still fail.
NoPre == [current |-> NilCfg, metadata |-> ZeroMetadata]

\* A frame of loadFromProvider: its position, its locals and, as history
\* variables, what the loader held on entry (pre), the fetches made (fetched),
\* the callback list registered when it stored its snapshot (reg), whether that
\* snapshot was the stored one when it released the lock (published), the
\* callback invocations it started (inv), and the calls of other goroutines
\* that had fetched already when it fetched from the primary provider (after).
NewFrame(isReload, id) ==
    [pc |-> "primary", isReload |-> isReload, id |-> id,
     values |-> NilValues, source |-> "", fetchErr |-> FALSE, err |-> "",
     cfg |-> NilCfg, warnings |-> <<>>, old |-> NilCfg, callbacks |-> <<>>, i |-> 1,
     pre |-> [current |-> current, metadata |-> metadata],
     fetched |-> <<>>, reg |-> <<>>, published |-> FALSE, inv |-> <<>>, after |-> {}]

Depth(p) == Len(stack[p])
Idle(p) == stack[p] = <<>>
Top(p) == stack[p][Len(stack[p])]
At(p, pc) == ~Idle(p) /\ Top(p).pc = pc
SetTop(p, frame) == [stack EXCEPT ![p][Len(stack[p])] = frame]
Push(p, frame) == [stack EXCEPT ![p] = Append(@, frame)]

\* Provider.Fetch: (nil, err) or (a fresh non-nil map, nil).
FetchResults == {[values |-> NilValues, err |-> TRUE]}
                \cup {[values |-> MapValues(m), err |-> FALSE] : m \in served}

\* The loader as constructed: nothing loaded, nothing registered, nobody running.
Unloaded ==
    /\ mu = NoProc
    /\ current = NilCfg
    /\ metadata = ZeroMetadata
    /\ callbacks = <<>>
    /\ stack = [p \in Procs |-> <<>>]
    /\ calls = 0

\* NewLoaderWithProvider(mock, nil), as the TestLoader helper builds it (the
\* zero BootstrapConfig carries FailurePolicyFail), used from two goroutines.
Init ==
    /\ T = TestConfig
    /\ provider = TRUE
    /\ fallback = FALSE
    /\ policy = FailurePolicyFail
    /\ served = SharedPayloads
    /\ arg = NoArg
    /\ watcher = NoWatcher
    /\ tenants = NoTenants
    /\ shared = NoShared
    /\ result = NotRun
    /\ Unloaded

\* Any loader NewLoader / NewLoaderWithProvider can build, used from one goroutine.
InitLoad ==
    /\ T \in Schemas
    /\ provider \in BOOLEAN
    /\ fallback \in BOOLEAN
    /\ policy \in FailurePolicies
    /\ served = FlatMaps
    /\ arg = NoArg
    /\ watcher = NoWatcher
    /\ tenants = NoTenants
    /\ shared = NoShared
    /\ result = NotRun
    /\ Unloaded

\* What no step of the loader changes.
Config == <<T, provider, fallback, policy, served, arg, result, watcher, tenants,
           shared>>

\* The calls made by the goroutines other than p that are past their primary
\* fetch, for a call p makes itself (not from a callback).
FetchedBefore(p) ==
    IF Len(stack[p]) > 1 THEN {}
    ELSE {stack[q][1].id : q \in {q \in Procs \ {p} :
                                     stack[q] /= <<>> /\ stack[q][1].pc /= "primary"}}

\* Load / Reload: enter loadFromProvider(ctx, isReload).
Enter(p, isReload) ==
    /\ Idle(p)
    /\ calls < MaxLoads
    /\ calls' = calls + 1
    /\ stack' = Push(p, NewFrame(isReload, calls + 1))
    /\ UNCHANGED <<Config, mu, current, metadata, callbacks>>

Load(p) == Enter(p, FALSE)
Reload(p) == Enter(p, TRUE)

\* Try primary provider first; then the test that guards the fallback fetch.
AfterPrimary_AlwaysFallback(frame) ==
    [frame EXCEPT !.pc = IF fallback THEN "fallback" ELSE "parse"]

AfterPrimary(frame) ==
    [frame EXCEPT !.pc = IF frame.values.nil /\ fallback THEN "fallback" ELSE "parse"]

FetchPrimary(p) ==
    /\ At(p, "primary")
    /\ IF provider
       THEN \E r \in FetchResults :
              stack' = SetTop(p, AfterPrimary([Top(p) EXCEPT
                          !.after = FetchedBefore(p),
                          !.values = r.values,
                          !.fetchErr = r.err,
                          !.source = IF r.err THEN @ ELSE PrimaryName,
                          !.fetched = Append(@, [who |-> PrimaryName, ok |-> ~r.err])]))
       ELSE stack' = SetTop(p, AfterPrimary(Top(p)))
    /\ UNCHANGED <<Config, mu, current, metadata, callbacks, calls>>

\* Fall back if primary failed or wasn't available.
FetchFallback(p) ==
    /\ At(p, "fallback")
    /\ \E r \in FetchResults :
          stack' = SetTop(p, [Top(p) EXCEPT
                      !.pc = "parse",
                      !.values = r.values,
                      !.fetchErr = r.err,
                      !.source = IF r.err THEN @ ELSE FallbackName,
                      !.fetched = Append(@, [who |-> FallbackName, ok |-> ~r.err])])
    /\ UNCHANGED <<Config, mu, current, metadata, callbacks, calls>>

\* Handle failure based on policy: the frame after the switch on FailurePolicy.
HandleFailure_FallbackToEmpty(frame, pol) ==
    IF ~frame.values.nil THEN frame
    ELSE CASE pol = FailurePolicyFail ->
                [frame EXCEPT !.pc = "done", !.err = "failed to load configuration"]
           [] OTHER ->
                [frame EXCEPT !.values = MapValues(EmptyMap), !.source = "defaults"]

HandleFailure_WarnKeepsSource(frame, pol) ==
    IF ~frame.values.nil THEN frame
    ELSE CASE pol = FailurePolicyFail ->
                [frame EXCEPT !.pc = "done", !.err = "failed to load configuration"]
           [] pol = FailurePolicyWarn ->
                [frame EXCEPT !.values = MapValues(EmptyMap)]
           [] OTHER ->
                [frame EXCEPT !.pc = "done",
                              !.err = IF frame.fetchErr THEN "failed to load configuration"
                                      ELSE "no configuration available"]

HandleFailure(frame, pol) ==
    IF ~frame.values.nil THEN frame
    ELSE CASE pol = FailurePolicyFail ->
                [frame EXCEPT !.pc = "done", !.err = "failed to load configuration"]
           [] pol = FailurePolicyWarn ->
                [frame EXCEPT !.values = MapValues(EmptyMap), !.source = "defaults"]
           [] OTHER ->
                [frame EXCEPT !.pc = "done",
                              !.err = IF frame.fetchErr THEN "failed to load configuration"
                                      ELSE "no configuration available"]

\* Notify callbacks if this is a reload.
ShouldNotify_Always(frame) == frame.old.ptr /= 0
ShouldNotify(frame) == frame.isReload /\ frame.old.ptr /= 0

\* The head of the loop over callbacks: call callbacks[i], or return cfg, nil.
NotifyLoop(frame) ==
    IF ShouldNotify(frame) /\ frame.i <= Len(frame.callbacks)
    THEN [frame EXCEPT !.pc = "callback",
                       !.inv = Append(@, [cb |-> frame.callbacks[frame.i],
                                          old |-> frame.old.ptr,
                                          new |-> frame.cfg.ptr])]
    ELSE [frame EXCEPT !.pc = "done"]

\* Parse values into struct.
ParseInto_IgnoresError(frame, fields) ==
    LET res == unmarshalConfig(frame.values.kv, fields)
    IN  [frame EXCEPT !.pc = "lock",
                      !.cfg = [ptr |-> frame.id, f |-> res.f],
                      !.warnings = res.warnings,
                      !.pre = NoPre]

ParseInto(frame, fields) ==
    LET res == unmarshalConfig(frame.values.kv, fields)
    IN  IF res.err /= ""
        THEN [frame EXCEPT !.pc = "done", !.err = "failed to parse configuration",
                           !.cfg = [ptr |-> frame.id, f |-> res.f]]
        ELSE [frame EXCEPT !.pc = "lock",
                           !.cfg = [ptr |-> frame.id, f |-> res.f],
                           !.warnings = res.warnings,
                           !.pre = NoPre]

Parse_StoresBeforeParsing(p) ==
    /\ At(p, "parse")
    /\ LET handled == HandleFailure(Top(p), policy)
           next == IF handled.pc = "done" THEN handled ELSE ParseInto(handled, T)
       IN  /\ stack' = SetTop(p, next)
           /\ current' = IF next.err = "failed to parse configuration" THEN next.cfg
                          ELSE current
    /\ UNCHANGED <<Config, mu, metadata, callbacks, calls>>

Parse(p) ==
    /\ At(p, "parse")
    /\ LET handled == HandleFailure(Top(p), policy)
       IN  stack' = SetTop(p, IF handled.pc = "done" THEN handled
                              ELSE ParseInto(handled, T))
    /\ UNCHANGED <<Config, mu, current, metadata, callbacks, calls>>

\* Update state: l.mu.Lock(); old := l.current; l.current = cfg
StoreCurrent_NoLock(p) ==
    /\ At(p, "lock")
    /\ current' = Top(p).cfg
    /\ stack' = SetTop(p, [Top(p) EXCEPT !.pc = "meta", !.old = current,
                                         !.reg = callbacks])
    /\ UNCHANGED <<Config, mu, metadata, callbacks, calls>>

StoreCurrent_OnlyFirst(p) ==
    /\ At(p, "lock")
    /\ mu = NoProc
    /\ mu' = p
    /\ current' = IF current.ptr = 0 THEN Top(p).cfg ELSE current
    /\ stack' = SetTop(p, [Top(p) EXCEPT !.pc = "meta", !.old = current,
                                         !.reg = callbacks])
    /\ UNCHANGED <<Config, metadata, callbacks, calls>>

StoreCurrent(p) ==
    /\ At(p, "lock")
    /\ mu = NoProc
    /\ mu' = p
    /\ current' = Top(p).cfg
    /\ stack' = SetTop(p, [Top(p) EXCEPT !.pc = "meta", !.old = current,
                                         !.reg = callbacks])
    /\ UNCHANGED <<Config, metadata, callbacks, calls>>

\* l.metadata = ConfigMetadata{...}
StoreMetadata(p) ==
    /\ At(p, "meta")
    /\ metadata' = [Source |-> Top(p).source,
                    KeyCount |-> KeyCountOf(Top(p).values),
                    Warnings |-> Top(p).warnings,
                    of |-> Top(p).cfg.ptr]
    /\ stack' = SetTop(p, [Top(p) EXCEPT !.pc = "unlock"])
    /\ UNCHANGED <<Config, mu, current, callbacks, calls>>

\* callbacks := l.callbacks; l.mu.Unlock()
Unlock_KeepsLock(p) ==
    /\ At(p, "unlock")
    /\ stack' = SetTop(p, NotifyLoop([Top(p) EXCEPT
                                         !.callbacks = callbacks,
                                         !.values = NilValues, !.warnings = <<>>,
                                         !.fetched = <<>>]))
    /\ UNCHANGED <<Config, mu, current, metadata, callbacks, calls>>

Unlock(p) ==
    /\ At(p, "unlock")
    /\ mu' = IF mu = p THEN NoProc ELSE mu
    /\ stack' = SetTop(p, NotifyLoop([Top(p) EXCEPT
                                         !.callbacks = callbacks,
                                         !.published = (current = Top(p).cfg),
                                         !.values = NilValues, !.warnings = <<>>,
                                         !.fetched = <<>>]))
    /\ UNCHANGED <<Config, current, metadata, callbacks, calls>>

\* The frame after cb(old, cfg) returned.
AfterCallback(frame) == NotifyLoop([frame EXCEPT !.i = @ + 1])

\* cb(old, cfg) returns without calling into the loader.
CallbackReturn(p) ==
    /\ At(p, "callback")
    /\ stack' = SetTop(p, AfterCallback(Top(p)))
    /\ UNCHANGED <<Config, mu, current, metadata, callbacks, calls>>

\* cb(old, cfg) calls Current() or Metadata() (RLock, read, RUnlock) and returns.
CallbackRead(p) ==
    /\ At(p, "callback")
    /\ ReadLockFree
    /\ stack' = SetTop(p, AfterCallback(Top(p)))
    /\ UNCHANGED <<Config, mu, current, metadata, callbacks, calls>>

\* cb(old, cfg) calls OnChange(fn) (Lock, append, Unlock) and returns.
CallbackOnChange(p, fn) ==
    /\ At(p, "callback")
    /\ mu = NoProc
    /\ Len(callbacks) < MaxCallbacks
    /\ callbacks' = Append(callbacks, fn)
    /\ stack' = SetTop(p, AfterCallback(Top(p)))
    /\ UNCHANGED <<Config, mu, current, metadata, calls>>

\* cb(old, cfg) calls Reload(ctx): a nested frame.
CallbackReload(p) ==
    /\ At(p, "callback")
    /\ calls < MaxLoads
    /\ calls' = calls + 1
    /\ stack' = Push(p, NewFrame(TRUE, calls + 1))
    /\ UNCHANGED <<Config, mu, current, metadata, callbacks>>

\* cb(old, cfg) panics: loadFromProvider has no deferred call, so the panic
\* unwinds every frame of the goroutine without running any of its code.
Panicked ==
    [pc |-> "panicked", isReload |-> FALSE, id |-> 0,
     values |-> NilValues, source |-> "", fetchErr |-> FALSE, err |-> "",
     cfg |-> NilCfg, warnings |-> <<>>, old |-> NilCfg, callbacks |-> <<>>, i |-> 1,
     pre |-> NoPre,
     fetched |-> <<>>, reg |-> <<>>, published |-> FALSE, inv |-> <<>>, after |-> {}]

CallbackPanic(p) ==
    /\ At(p, "callback")
    /\ stack' = [stack EXCEPT ![p] = <<Panicked>>]
    /\ UNCHANGED <<Config, mu, current, metadata, callbacks, calls>>

\* The goroutine's top level recovers the panic and carries on.
Recover(p) ==
    /\ At(p, "panicked")
    /\ stack' = [stack EXCEPT ![p] = <<>>]
    /\ UNCHANGED <<Config, mu, current, metadata, callbacks, calls>>

\* return cfg, nil / return nil, err: back to the caller, which is the
\* goroutine's top level or the callback that called Reload.
Return(p) ==
    /\ At(p, "done")
    /\ LET below == SubSeq(stack[p], 1, Len(stack[p]) - 1)
       IN  stack' = [stack EXCEPT ![p] =
                        IF below = <<>> THEN <<>>
                        ELSE [below EXCEPT ![Len(below)] = AfterCallback(@)]]
    /\ UNCHANGED <<Config, mu, current, metadata, callbacks, calls>>

\* OnChange(fn), called by a subscriber from a goroutine of its own:
\* Lock, append, Unlock.
OnChange(fn) ==
    /\ mu = NoProc
    /\ Len(callbacks) < MaxCallbacks
    /\ callbacks' = Append(callbacks, fn)
    /\ UNCHANGED <<Config, mu, current, metadata, stack, calls>>

\* One goroutine, no subscriber.
Main == "g1"
NextLoad ==
    \/ Load(Main)
    \/ Reload(Main)
    \/ FetchPrimary(Main)
    \/ FetchFallback(Main)
    \/ Parse(Main)
    \/ StoreCurrent(Main)
    \/ StoreMetadata(Main)
    \/ Unlock(Main)
    \/ Return(Main)

SpecLoad == InitLoad /\ [][NextLoad]_vars

\* Two goroutines and a subscriber; the loader of these runs has no fallback
\* provider, so FetchFallback has no part in them.
Next ==
    \E p \in Procs :
        \/ Load(p)
        \/ Reload(p)
        \/ FetchPrimary(p)
        \/ Parse(p)
        \/ StoreCurrent(p)
        \/ StoreMetadata(p)
        \/ Unlock(p)
        \/ CallbackReturn(p)
        \/ CallbackRead(p)
        \/ \E fn \in CallbackIds : CallbackOnChange(p, fn)
        \/ CallbackReload(p)
        \/ CallbackPanic(p)
        \/ Recover(p)
        \/ Return(p)
        \/ \E fn \in CallbackIds : OnChange(fn)

Spec == Init /\ [][Next]_vars

-----------------------------------------------------------------------------
(* Vocabulary of the properties *)

\* Every frame of every goroutine, with its owner and depth.
FrameRefs == {<<p, k>> : p \in Procs, k \in 1..MaxLoads}
Live == {r \in FrameRefs : r[2] <= Len(stack[r[1]])}
FrameOf(r) == stack[r[1]][r[2]]
Frames == {FrameOf(r) : r \in Live}

\* The leaf fields of a type with the key each is looked up under.
RECURSIVE LeafFields(_, _)
LeafFields(fields, prefix) ==
    IF fields = <<>> THEN {}
    ELSE LET field == Head(fields)
             here == IF field.Kind = "struct"
                     THEN LeafFields(field.Fields,
                                     IF field.Anonymous THEN prefix
                                     ELSE prefix \o field.Name \o ".")
                     ELSE {[path |-> prefix \o field.Name,
                            key |-> IF field.doppler = "" THEN prefix \o field.Name
                                    ELSE field.doppler,
                            field |-> field]}
         IN  here \cup LeafFields(Tail(fields), prefix)

\* Some field is marked required:"true", declares no default, and its key is
\* not in the map.
LacksRequired(m, fields) ==
    \E l \in LeafFields(fields, "") :
        /\ l.field.required = "true"
        /\ l.field.default = ""
        /\ l.key \notin DOMAIN m

\* The call has handed its values to the mapper (or returned before doing so).
PastMapping(frame) == frame.pc \notin {"primary", "fallback", "parse", "panicked"}
Failed(frame) == frame.pc = "done" /\ frame.err /= ""
Unchanged(frame) == Current = frame.pre.current /\ Metadata = frame.pre.metadata

-----------------------------------------------------------------------------
\* C1: for every non-empty flat map that lacks the key of a required field
\* without default, Load and Reload return an error and commit nothing:
\* Current() and Metadata() are what they were when the call was made.
C1_RequiredMissingFails ==
    \A frame \in Frames :
        ( /\ PastMapping(frame)
          /\ ~frame.values.nil
          /\ frame.values.kv /= EmptyMap
          /\ LacksRequired(frame.values.kv, T) )
        => Failed(frame) /\ Unchanged(frame)

\* A Reload of a loaded loader fetched a non-empty map without DATABASE_URL.
C1_Witness ==
    \E frame \in Frames :
        /\ Failed(frame)
        /\ frame.isReload
        /\ frame.pre.current.ptr /= 0
        /\ ~frame.values.nil
        /\ frame.values.kv /= EmptyMap
        /\ LacksRequired(frame.values.kv, T)

\* C2: after a successful Load, a Reload that fails for any reason leaves the
\* stored snapshot and metadata unchanged: Current() is still the last
\* successfully loaded config and Metadata() the metadata of that load.
C2_FailedReloadKeepsSnapshot ==
    \A frame \in Frames :
        (Failed(frame) /\ frame.isReload /\ frame.pre.current.ptr /= 0)
        => /\ Unchanged(frame)
           /\ Current.ptr /= 0
           /\ Metadata.of = Current.ptr

\* The second of two failed Reloads after a successful Load has returned.
C2_Witness ==
    \E frame \in Frames :
        /\ Failed(frame)
        /\ frame.isReload
        /\ frame.pre.current.ptr = 1
        /\ frame.id = 3

-----------------------------------------------------------------------------
\* What a successful Reload that replaced a snapshot owes its subscribers, and
\* what every other call owes them: nothing.
Owed(frame) ==
    IF frame.err = "" /\ frame.isReload /\ frame.old.ptr /= 0
    THEN [k \in 1..Len(frame.reg) |->
            [cb |-> frame.reg[k], old |-> frame.old.ptr, new |-> frame.cfg.ptr]]
    ELSE <<>>

C3_Invocations ==
    \A frame \in Frames :
        /\ Len(frame.inv) <= Len(Owed(frame))
        /\ frame.inv = SubSeq(Owed(frame), 1, Len(frame.inv))
        /\ frame.pc = "done" => frame.inv = Owed(frame)

\* The step that replaces the snapshot: old is the snapshot replaced, cfg the
\* one committed, and reg the callbacks registered at that moment.
C3_Commit ==
    \A p \in Procs :
        (stack'[p] /= stack[p] /\ current' /= current)
        => /\ stack'[p] /= <<>>
           /\ Top(p)'.old = current
           /\ Top(p)'.cfg = current'
           /\ Top(p)'.reg = callbacks

\* C3: a successful Reload made when a prior snapshot exists invokes each
\* registered callback exactly once, in registration order, with the snapshot
\* it replaced and the one it committed; Load, a Reload without prior snapshot
\* and a failed Reload invoke none; a callback registered twice runs twice.
C3_CallbacksOncePerReload == [](C3_Invocations) /\ [][C3_Commit]_vars

\* A Reload returned after invoking a callback that was registered twice.
C3_Witness ==
    \E frame \in Frames :
        /\ frame.pc = "done"
        /\ frame.isReload
        /\ Len(frame.inv) = 2
        /\ frame.inv[1].cb = frame.inv[2].cb
        /\ frame.inv[1].old /= 0

\* C4: every change callback of a Reload starts after that Reload's snapshot
\* became visible through Current(), and all of them have completed when the
\* Reload returns.
C4_NotifyAfterCommitBeforeReturn ==
    \A r \in Live :
        LET frame == FrameOf(r)
        IN  /\ frame.inv /= <<>> => frame.published
            /\ frame.pc = "done" =>
                  /\ r[2] = Len(stack[r[1]])
                  /\ frame.i = Len(frame.inv) + 1

\* The second callback of a Reload is running.
C4_Witness ==
    \E frame \in Frames :
        /\ frame.pc = "callback"
        /\ frame.i = 2
        /\ Current = frame.cfg

\* C5: a goroutine holds the loader's lock only between the Lock and the
\* Unlock of its own commit: never while the code of one of its change
\* callbacks runs, after a callback panicked, or once its call returned. The
\* callback can therefore lock the same loader again (Current, Metadata,
\* OnChange, Reload) and a panic leaves the lock free.
C5_LockFreeDuringCallbacks ==
    \A p \in Procs :
        /\ (Idle(p) \/ At(p, "panicked") \/ At(p, "callback")) => mu /= p
        /\ mu = p => Top(p).pc \in {"meta", "unlock"}

\* A Reload called from inside a callback has taken the lock and committed.
C5_Witness ==
    \E p \in Procs :
        /\ Len(stack[p]) = 2
        /\ stack[p][1].pc = "callback"
        /\ stack[p][2].pc = "unlock"
        /\ mu = p

-----------------------------------------------------------------------------
Fetch(who, ok) == [who |-> who, ok |-> ok]
\* The fetches are over and their log is still in the frame.
PastFetch(frame) == frame.pc \in {"parse", "lock", "meta", "unlock"} \/ Failed(frame)
NoneSupplied(frame) == \A k \in DOMAIN frame.fetched : ~frame.fetched[k].ok
BothFailed(frame) == frame.fetched = <<Fetch(PrimaryName, FALSE), Fetch(FallbackName, FALSE)>>
HandledFailure(frame) == PastFetch(frame) /\ frame.pc /= "parse" /\ NoneSupplied(frame)

\* C6: the primary provider is fetched first; the fallback is fetched only
\* when the primary is absent or produced no values; and the Source stored by
\* a successful load names the provider whose fetch supplied the values.
C6_PrimaryFirstThenFallback ==
    \A frame \in Frames :
        /\ \A k \in DOMAIN frame.fetched :
              /\ frame.fetched[k].who = PrimaryName => k = 1 /\ provider
              /\ frame.fetched[k].who = FallbackName =>
                    /\ fallback
                    /\ k = Len(frame.fetched)
                    /\ \/ k = 1 /\ ~provider
                       \/ k = 2 /\ frame.fetched[1] = Fetch(PrimaryName, FALSE)
        /\ PastFetch(frame) =>
              /\ provider => frame.fetched /= <<>>
              /\ (fallback /\ NoneSupplied(frame)) =>
                    frame.fetched[Len(frame.fetched)].who = FallbackName
        /\ (frame.pc = "unlock" /\ ~NoneSupplied(frame)) =>
              /\ frame.fetched[Len(frame.fetched)].ok
              /\ Metadata.Source = frame.fetched[Len(frame.fetched)].who

\* A load whose primary fetch failed has stored the fallback's values.
C6_Witness ==
    \E frame \in Frames :
        /\ frame.pc = "unlock"
        /\ frame.fetched = <<Fetch(PrimaryName, FALSE), Fetch(FallbackName, TRUE)>>
        /\ Metadata.Source = FallbackName

\* C7 as claimed: under FailurePolicyFallback a load whose two fetches failed
\* succeeds from defaults, with Source "defaults".
C7_FallbackPolicyLoadsDefaults ==
    \A frame \in Frames :
        (policy = FailurePolicyFallback /\ frame.pc = "done" /\ BothFailed(frame))
        => frame.err = "" /\ Metadata.Source = "defaults"

\* C7 amended: under FailurePolicyFallback a load none of whose fetches
\* supplied values returns an error and commits nothing, as under
\* FailurePolicyFail; no load under that policy reports Source "defaults".
C7_FallbackPolicyFails ==
    /\ policy = FailurePolicyFallback => Metadata.Source /= "defaults"
    /\ \A frame \in Frames :
          (policy = FailurePolicyFallback /\ HandledFailure(frame))
          => /\ Failed(frame)
             /\ frame.err \in {"failed to load configuration",
                               "no configuration available"}
             /\ Unchanged(frame)

\* Under FailurePolicyFallback both fetches failed and the load returned an error.
C7_Witness ==
    \E frame \in Frames :
        /\ policy = FailurePolicyFallback
        /\ Failed(frame)
        /\ BothFailed(frame)

NoUndefaultedRequired(fields) ==
    \A l \in LeafFields(fields, "") :
        l.field.required = "true" => l.field.default /= ""

\* The object populated from the declared defaults alone: a default that does
\* not coerce leaves the zero value.
DefaultsOnly(fields) ==
    LET leaves == LeafFields(fields, "")
    IN  [path \in {l.path : l \in leaves} |->
            LET l == CHOOSE x \in leaves : x.path = path
            IN  IF l.field.Kind = "int"
                THEN IF l.field.default \in IntLiterals
                     THEN ParseInt(l.field.default).v ELSE 0
                ELSE l.field.default]

\* C8: under FailurePolicyWarn, when the fetches fail and no required field
\* lacks a default, the load succeeds, every field holds its default or its
\* zero value, Source is "defaults" and KeyCount is 0; under FailurePolicyFail
\* the same situation returns an error and changes no snapshot.
C8_WarnLoadsDefaultsFailFails ==
    \A frame \in Frames :
        (HandledFailure(frame) /\ NoUndefaultedRequired(T))
        => /\ policy = FailurePolicyWarn =>
                /\ ~Failed(frame)
                /\ frame.cfg.f = DefaultsOnly(T)
                /\ frame.pc = "unlock" =>
                      /\ Current = frame.cfg
                      /\ Metadata.Source = "defaults"
                      /\ Metadata.KeyCount = 0
           /\ policy = FailurePolicyFail => Failed(frame) /\ Unchanged(frame)

\* Under FailurePolicyWarn both fetches failed and the defaults were stored.
C8_Witness ==
    \E frame \in Frames :
        /\ policy = FailurePolicyWarn
        /\ frame.pc = "unlock"
        /\ BothFailed(frame)
        /\ Metadata.Source = "defaults"
        /\ Metadata.Warnings /= <<>>

\* C9: a mapper error (a required field without value) aborts Load/Reload
\* with the parse error and no snapshot change under every failure policy,
\* also when the values are the empty map the warn policy supplied.
C9_MapperErrorAborts ==
    \A frame \in Frames :
        (PastMapping(frame) /\ ~frame.values.nil /\ LacksRequired(frame.values.kv, T))
        => /\ Failed(frame)
           /\ frame.err = "failed to parse configuration"
           /\ Unchanged(frame)

\* Under FailurePolicyWarn a Reload of a loaded loader got no values, mapped
\* the empty map and failed on the required field.
C9_Witness ==
    \E frame \in Frames :
        /\ policy = FailurePolicyWarn
        /\ Failed(frame)
        /\ BothFailed(frame)
        /\ frame.values = MapValues(EmptyMap)
        /\ frame.isReload
        /\ frame.pre.current.ptr /= 0

\* The snapshot and the metadata one load of a payload of the two-goroutine
\* runs stores.
OfOneLoad(cfg, md) ==
    \E m \in served :
        /\ cfg.f["Database.URL"] = m["DATABASE_URL"]
        /\ cfg.f["Server.Port"] = (IF "SERVER_PORT" \in DOMAIN m THEN 9090 ELSE 8080)
        /\ md.KeyCount = Cardinality(DOMAIN m)
        /\ md.Source = PrimaryName
        /\ md.Warnings = <<>>

\* C10: whenever Current() or Metadata() can read (no writer holds the lock),
\* the stored metadata is the metadata of the load that produced the stored
\* snapshot, for any interleaving of Load/Reload calls.
C10_SnapshotAndMetadataTogether ==
    ReadLockFree =>
        /\ Metadata.of = Current.ptr
        /\ IF Current.ptr = 0 THEN Metadata = ZeroMetadata
           ELSE OfOneLoad(Current, Metadata)

\* One load has committed and a concurrent one, mapped from another payload,
\* is about to take the lock.
C10_Witness ==
    \E p, q \in Procs :
        /\ p /= q
        /\ At(p, "lock")
        /\ ReadLockFree
        /\ ~Idle(q)
        /\ Top(q).pc \in {"callback", "done"}
        /\ Current = Top(q).cfg
        /\ Top(p).cfg.f /= Current.f

-----------------------------------------------------------------------------
\* A call whose mapping succeeded and that still holds the map it was made from.
Mapped(frame) == frame.pc \in {"lock", "meta", "unlock"}
\* The value the map holds under a field's key, "" when the key is absent.
SourceValue(m, l) == IF l.key \in DOMAIN m THEN m[l.key] ELSE ""
\* What a raw string is as a value of a field's type; 0 when it is no integer.
Typed(kind, s) ==
    IF kind = "int" THEN (IF s \in IntLiterals THEN ParseInt(s).v ELSE 0) ELSE s

\* C11 as claimed: every required field of a committed snapshot holds a
\* non-empty value; a required field without default whose key is present
\* with the empty string makes the load fail.
C11_RequiredFieldsNonEmpty ==
    Current.ptr /= 0 =>
        \A l \in LeafFields(T, "") :
            l.field.required = "true" => Current.f[l.path] /= ""

\* C12: a field that declares a default is set from the map's value when that
\* value is non-empty, and from its default exactly when the key is absent or
\* its value is the empty string.
C12_SourceValueWinsOverDefault ==
    \A frame \in Frames :
        Mapped(frame) =>
            \A l \in LeafFields(T, "") :
                l.field.default /= "" =>
                    LET src == SourceValue(frame.values.kv, l)
                    IN  frame.cfg.f[l.path] =
                            Typed(l.field.Kind, IF src /= "" THEN src ELSE l.field.default)

\* Port declares the default 8080 and was set from the map's 9090.
C12_Witness ==
    \E frame \in Frames :
        /\ Mapped(frame)
        /\ T = TestConfig
        /\ "SERVER_PORT" \in DOMAIN frame.values.kv
        /\ frame.values.kv["SERVER_PORT"] = "9090"
        /\ frame.cfg.f["Server.Port"] = 9090

\* The fields whose value (from the map, or the default) does not coerce.
Uncoercible(m, fields) ==
    {l \in LeafFields(fields, "") :
        LET src == SourceValue(m, l)
            raw == IF src /= "" THEN src ELSE l.field.default
        IN  raw /= "" /\ l.field.Kind = "int" /\ raw \notin IntLiterals}

-----------------------------------------------------------------------------
(* Functions studied on their own.  A string whose characters matter is a
   sequence of one-character strings. *)

\* The loader's variables, which the study of a function leaves alone.
LoaderVars == <<T, provider, fallback, policy, served,
                mu, current, metadata, callbacks, stack, calls>>
NoLoader ==
    /\ T = <<>>
    /\ provider = FALSE
    /\ fallback = FALSE
    /\ policy = FailurePolicyFail
    /\ served = {}
    /\ Unloaded

Letters ==
    { <<"a","A">>, <<"b","B">>, <<"d","D">>, <<"e","E">>, <<"f","F">>, <<"i","I">>, <<"l","L">>,
      <<"m","M">>, <<"n","N">>, <<"o","O">>, <<"r","R">>, <<"s","S">>, <<"t","T">>,
      <<"u","U">>, <<"y","Y">> }
\* unicode.ToLower / unicode.ToUpper on the characters of the model.
Lower(c) == IF \E l \in Letters : l[2] = c THEN (CHOOSE l \in Letters : l[2] = c)[1] ELSE c
Upper(c) == IF \E l \in Letters : l[1] = c THEN (CHOOSE l \in Letters : l[1] = c)[2] ELSE c
\* strings.ToLower
ToLower(s) == [i \in 1..Len(s) |-> Lower(s[i])]

W1 == <<"1">>
W0 == <<"0">>
Wt == <<"t">>
Wf == <<"f">>
Wy == <<"y">>
Wn == <<"n">>
Wtrue == <<"t","r","u","e">>
Wfalse == <<"f","a","l","s","e">>
Wyes == <<"y","e","s">>
Wno == <<"n","o">>
Won == <<"o","n">>
Woff == <<"o","f","f">>
Wenabled == <<"e","n","a","b","l","e","d">>
Wdisabled == <<"d","i","s","a","b","l","e","d">>
Capitalized(w) == [w EXCEPT ![1] = Upper(w[1])]
AllUpper(w) == [i \in 1..Len(w) |-> Upper(w[i])]

\* strconv.ParseBool: 1, t, T, TRUE, true, True / 0, f, F, FALSE, false, False.
ParseBool(s) ==
    IF s \in {W1, Wt, AllUpper(Wt), AllUpper(Wtrue), Wtrue, Capitalized(Wtrue)}
    THEN [ok |-> TRUE, v |-> TRUE]
    ELSE IF s \in {W0, Wf, AllUpper(Wf), AllUpper(Wfalse), Wfalse, Capitalized(Wfalse)}
    THEN [ok |-> TRUE, v |-> FALSE]
    ELSE [ok |-> FALSE, v |-> FALSE]

\* setFieldValue, case reflect.Bool: ParseBool, then the common variations.
setFieldValueBool(s) ==
    LET b == ParseBool(s)
        l == ToLower(s)
    IN  IF b.ok THEN b
        ELSE IF l \in {Wyes, Wy, Won, Wenabled, W1} THEN [ok |-> TRUE, v |-> TRUE]
        ELSE IF l \in {Wno, Wn, Woff, Wdisabled, W0} THEN [ok |-> TRUE, v |-> FALSE]
        ELSE [ok |-> FALSE, v |-> FALSE]

\* Every upper/lower-case mix of a word.
RECURSIVE CaseMixes(_)
CaseMixes(w) ==
    IF w = <<>> THEN {<<>>}
    ELSE {<<c>> \o rest : c \in {w[1], Upper(w[1])}, rest \in CaseMixes(Tail(w))}
\* Strings that are none of the words above.
OtherWords ==
    { <<>>, <<"2">>, <<"1","0">>, <<"t","r","u">>, <<"y","e","s","s">>, <<"o">>,
      <<"o","f">>, <<"m","a","y","b","e">>, <<"n","o","n","e">>, <<"t","t">> }
BoolInputs ==
    UNION {CaseMixes(w) : w \in {W1, W0, Wt, Wf, Wy, Wn, Wtrue, Wfalse, Wyes, Wno,
                                 Won, Woff, Wenabled, Wdisabled} \cup OtherWords}

InitBool ==
    /\ arg \in BoolInputs
    /\ result = NotRun
    /\ NoLoader
    /\ watcher = NoWatcher
    /\ tenants = NoTenants
    /\ shared = NoShared

\* unmarshalStruct sets a bool field from a raw value.
CoerceBool ==
    /\ ~result.done
    /\ result' = Ran(setFieldValueBool(arg))
    /\ UNCHANGED <<LoaderVars, arg, watcher, tenants, shared>>

NextBool == CoerceBool
SpecBool == InitBool /\ [][NextBool]_vars

\* The words the claim lists.
ClaimedBoolWords == {Wtrue, Wfalse, Wyes, Wno, Won, Woff, Wenabled, Wdisabled, W1, W0}

\* C14 as claimed: a boolean field accepts exactly true/false, yes/no, on/off,
\* enabled/disabled and 1/0 in every mix of upper and lower case, and every
\* other string is a coercion error.
C14_BoolAcceptsExactlyTheWords ==
    result.done => (result.val.ok <=> ToLower(arg) \in ClaimedBoolWords)

-----------------------------------------------------------------------------
(* SecretValue *)

NewSecretValue(v) == [value |-> v]
Value(s) == s.value
\* String returns a redacted representation for logging.
String_ShowsShort(s) == IF s.value = "" THEN "[empty]"
                        ELSE IF s.value \in {"a", "b"} THEN s.value ELSE "[REDACTED]"
String(s) == IF s.value = "" THEN "[empty]" ELSE "[REDACTED]"
\* MarshalJSON redacts the value in JSON output: the bytes of a JSON string.
JSONString(str) == "\"" \o str \o "\""
MarshalJSON(s) == JSONString("[REDACTED]")

Secrets == {"", "a", "b", "super-secret", "[REDACTED]", "[empty]", "\"", " ",
            "null", "0", "dp.st.xxxx"}

\* Two secrets are made and rendered every way.
InitSecret ==
    /\ arg \in Secrets \X Secrets
    /\ result = NotRun
    /\ NoLoader
    /\ watcher = NoWatcher
    /\ tenants = NoTenants
    /\ shared = NoShared

Render ==
    /\ ~result.done
    /\ result' = Ran([k \in {1, 2} |->
                        LET s == NewSecretValue(arg[k])
                        IN  [String |-> String(s), JSON |-> MarshalJSON(s),
                             Value |-> Value(s)]])
    /\ UNCHANGED <<LoaderVars, arg, watcher, tenants, shared>>

NextSecret == Render
SpecSecret == InitSecret /\ [][NextSecret]_vars

\* C16 as claimed: String() and the JSON serialization both yield "[REDACTED]"
\* for a non-empty secret and "[empty]" for an empty one; Value() returns the
\* original string.
C16_RenderingsRedactOrEmpty ==
    result.done =>
        \A k \in {1, 2} :
            LET marker == IF arg[k] = "" THEN "[empty]" ELSE "[REDACTED]"
            IN  /\ result.val[k].String = marker
                /\ result.val[k].JSON = JSONString(marker)
                /\ result.val[k].Value = arg[k]

\* C16 amended: String() yields "[REDACTED]" for a non-empty secret and
\* "[empty]" for an empty one; the JSON serialization yields "[REDACTED]" for
\* every secret, empty or not; two secrets with different non-empty contents
\* render identically; Value() returns the original string.
C16_RenderingsHideContent ==
    result.done =>
        /\ \A k \in {1, 2} :
              /\ result.val[k].String = (IF arg[k] = "" THEN "[empty]" ELSE "[REDACTED]")
              /\ result.val[k].JSON = JSONString("[REDACTED]")
              /\ result.val[k].Value = arg[k]
        /\ (arg[1] /= "" /\ arg[2] /= "") =>
              /\ result.val[1].String = result.val[2].String
              /\ result.val[1].JSON = result.val[2].JSON

\* Two different non-empty secrets were rendered.
C16_Witness ==
    /\ result.done
    /\ arg[1] /= arg[2]
    /\ arg[1] /= ""
    /\ arg[2] /= ""
    /\ result.val[1].Value /= result.val[2].Value
    /\ result.val[1].String = result.val[2].String

-----------------------------------------------------------------------------
(* The mapper on types that carry env tags *)

TagKeys == {"PORT", "Port", "LOG_LEVEL", "SERVICE_NAME", "SERVER_PORT"}
TagVals == {"9090", "4000"}
TagMaps == UNION {[D -> TagVals] : D \in SUBSET TagKeys}

InitTags ==
    /\ arg \in [T : TagSchemas, values : TagMaps]
    /\ result = NotRun
    /\ NoLoader
    /\ watcher = NoWatcher
    /\ tenants = NoTenants
    /\ shared = NoShared

\* cfg := new(T); unmarshalConfig(values, cfg)
Unmarshal ==
    /\ ~result.done
    /\ result' = Ran(unmarshalConfig(arg.values, arg.T))
    /\ UNCHANGED <<LoaderVars, arg, watcher, tenants, shared>>

NextTags == Unmarshal
SpecTags == InitTags /\ [][NextTags]_vars

\* The key the claim has a field looked up under.
ClaimedKey(field) ==
    IF field.doppler /= "" THEN field.doppler
    ELSE IF field.env /= "" THEN field.env
    ELSE field.Name

\* C15 as claimed: a field without doppler tag but with an env tag is looked
\* up under its env tag; the doppler tag has priority when both are present;
\* the field's name is used only when neither is.
C15_EnvTagIsTheFallbackKey ==
    result.done =>
        \A l \in LeafFields(arg.T, "") :
            LET key == ClaimedKey(l.field)
                src == IF key \in DOMAIN arg.values THEN arg.values[key] ELSE ""
            IN  result.val.f[l.path] =
                    Typed(l.field.Kind, IF src /= "" THEN src ELSE l.field.default)

-----------------------------------------------------------------------------
(* Strings as character sequences: the helpers of package strings and strconv
   that the validation rules use *)

LowerLetters == {"a","b","c","d","e","f","g","h","i","j","k","l","m","n","o","p","q",
                 "r","s","t","u","v","w","x","y","z"}
UpperLetters == {"A","B","C","D","E","F","G","H","I","J","K","L","M","N","O","P","Q",
                 "R","S","T","U","V","W","X","Y","Z"}
DigitChars == {"0","1","2","3","4","5","6","7","8","9"}
HexChars == DigitChars \cup {"a","b","c","d","e","f","A","B","C","D","E","F"}
DigitVal(c) ==
    CASE c = "0" -> 0 [] c = "1" -> 1 [] c = "2" -> 2 [] c = "3" -> 3 [] c = "4" -> 4
      [] c = "5" -> 5 [] c = "6" -> 6 [] c = "7" -> 7 [] c = "8" -> 8 [] c = "9" -> 9
DigitChar(d) == CHOOSE c \in DigitChars : DigitVal(c) = d

\* s[a:b] of Go, with 1-based inclusive positions.
Sub(s, a, b) == IF a > b THEN <<>> ELSE SubSeq(s, a, b)
From(s, a) == Sub(s, a, Len(s))
\* strings.Contains, strings.Index, strings.LastIndex for a one-character
\* separator (0 when absent).
Contains(s, c) == \E i \in 1..Len(s) : s[i] = c
IndexOf(s, c) ==
    IF Contains(s, c) THEN CHOOSE i \in 1..Len(s) : s[i] = c /\ \A j \in 1..(i-1) : s[j] /= c
    ELSE 0
LastIndexOf(s, c) ==
    IF Contains(s, c)
    THEN CHOOSE i \in 1..Len(s) : s[i] = c /\ \A j \in (i+1)..Len(s) : s[j] /= c
    ELSE 0
\* strings.Split(s, c)
RECURSIVE Split(_, _)
Split(s, c) ==
    IF ~Contains(s, c) THEN <<s>>
    ELSE <<Sub(s, 1, IndexOf(s, c) - 1)>> \o Split(From(s, IndexOf(s, c) + 1), c)

AllIn(s, class) == \A i \in 1..Len(s) : s[i] \in class
\* The value of a string of decimal digits.
RECURSIVE DecValue(_)
DecValue(s) ==
    IF s = <<>> THEN 0 ELSE DecValue(Sub(s, 1, Len(s) - 1)) * 10 + DigitVal(s[Len(s)])

\* strconv.ParseInt(s, 10, 64): an optional sign and digits (the values of
\* the model stay far from the 64-bit range).
Atoi(s) ==
    LET signed == s /= <<>> /\ s[1] \in {"+", "-"}
        digits == IF signed THEN Tail(s) ELSE s
    IN  IF digits = <<>> \/ ~AllIn(digits, DigitChars) THEN [ok |-> FALSE, v |-> 0]
        ELSE [ok |-> TRUE,
              v |-> IF signed /\ s[1] = "-" THEN 0 - DecValue(digits) ELSE DecValue(digits)]

\* fmt.Sprintf("%v", n) for an integer.
RECURSIVE Digits(_)
Digits(n) == IF n < 10 THEN <<DigitChar(n)>> ELSE Digits(n \div 10) \o <<DigitChar(n % 10)>>
Itoa(n) == IF n < 0 THEN <<"-">> \o Digits(0 - n) ELSE Digits(n)

-----------------------------------------------------------------------------
(* validateHost *)

\* net.SplitHostPort: [ok, host, port].
SplitHostPort(hostport) ==
    LET i == LastIndexOf(hostport, ":")
        n == Len(hostport)
        bad == [ok |-> FALSE, host |-> <<>>, port |-> <<>>]
    IN  IF i = 0 THEN bad
        ELSE IF hostport[1] = "["
        THEN LET end == IndexOf(hostport, "]")
             IN  IF end = 0 THEN bad
                 ELSE IF end = n THEN bad
                 ELSE IF end + 1 /= i THEN bad
                 ELSE IF Contains(From(hostport, 2), "[") THEN bad
                 ELSE IF Contains(From(hostport, end + 1), "]") THEN bad
                 ELSE [ok |-> TRUE, host |-> Sub(hostport, 2, end - 1),
                       port |-> From(hostport, i + 1)]
        ELSE IF Contains(Sub(hostport, 1, i - 1), ":") THEN bad
        ELSE IF Contains(hostport, "[") \/ Contains(hostport, "]") THEN bad
        ELSE [ok |-> TRUE, host |-> Sub(hostport, 1, i - 1), port |-> From(hostport, i + 1)]

\* One field of a dotted-decimal address: 1-3 digits, at most 255, no leading zero.
IsOctet(f) ==
    /\ Len(f) \in 1..3
    /\ AllIn(f, DigitChars)
    /\ (Len(f) > 1 => f[1] /= "0")
    /\ DecValue(f) <= 255
IsIPv4(s) ==
    LET fields == Split(s, ".")
    IN  Len(fields) = 4 /\ \A k \in 1..4 : IsOctet(fields[k])
\* A colon-separated list of groups of 1-4 hex digits ("" is the empty list).
HexGroups(s) == IF s = <<>> THEN <<>> ELSE Split(s, ":")
IsHexGroup(g) == Len(g) \in 1..4 /\ AllIn(g, HexChars)
\* An IPv6 literal without zone and without dotted-decimal tail: eight groups,
\* or fewer around one "::".
IsIPv6(s) ==
    LET ellipses == {i \in 1..(Len(s) - 1) : s[i] = ":" /\ s[i+1] = ":"}
    IN  IF ellipses = {}
        THEN Len(HexGroups(s)) = 8 /\ \A k \in 1..8 : IsHexGroup(HexGroups(s)[k])
        ELSE /\ Cardinality(ellipses) = 1
             /\ LET i == CHOOSE e \in ellipses : TRUE
                    left == HexGroups(Sub(s, 1, i - 1))
                    right == HexGroups(From(s, i + 2))
                IN  /\ \A k \in 1..Len(left) : IsHexGroup(left[k])
                    /\ \A k \in 1..Len(right) : IsHexGroup(right[k])
                    /\ Len(left) + Len(right) <= 7
\* net.ParseIP(host) != nil
ParseIP(host) == IsIPv4(host) \/ IsIPv6(host)

HostLabelChars == LowerLetters \cup UpperLetters \cup DigitChars \cup {"-"}
\* isValidHostname checks if a hostname is valid per RFC 1123.
isValidHostname(host) ==
    IF Len(host) = 0 \/ Len(host) > 253 THEN FALSE
    ELSE \A k \in 1..Len(Split(host, ".")) :
            LET label == Split(host, ".")[k]
            IN  /\ ~(Len(label) = 0 \/ Len(label) > 63)
                /\ ~(label[1] = "-" \/ label[Len(label)] = "-")
                /\ AllIn(label, HostLabelChars)

\* validateHost on a string value: "" for nil, else the error's message.
validateHost(s) ==
    IF s = <<>> THEN ""
    ELSE LET split == SplitHostPort(s)
             host == IF Contains(s, ":") THEN split.host ELSE s
         IN  IF Contains(s, ":") /\ ~split.ok THEN "invalid host:port format"
             ELSE IF ParseIP(host) THEN ""
             ELSE IF ~isValidHostname(host) THEN "invalid hostname"
             ELSE ""

-----------------------------------------------------------------------------
(* The host rule on its own *)

\* Every string of at most MaxHostLen characters of HostAlphabet.
MaxHostLen == 4
HostAlphabet == {"a", "1", "-", ".", ":", "[", "]", " "}
RECURSIVE StringsUpTo(_)
StringsUpTo(n) ==
    IF n = 0 THEN {<<>>}
    ELSE StringsUpTo(n - 1) \cup
         {<<c>> \o w : c \in HostAlphabet, w \in {x \in StringsUpTo(n - 1) : Len(x) = n - 1}}
\* The values of TestValidate_Host and other addresses.
HostExamples ==
    { <<"r","e","d","i","s">>,
      <<"1","2","7",".","0",".","0",".","1">>,
      <<"l","o","c","a","l","h","o","s","t">>,
      <<"e","x","a","m","p","l","e",".","c","o","m">>,
      <<"i","n","v","a","l","i","d"," ","h","o","s","t">>,
      <<"-","s","t","a","r","t",".","c","o","m">>,
      <<"e","n","d","-",".","c","o","m">>,
      <<"r","e","d","i","s",":","6","3","7","9">>,
      <<"1","2","7",".","0",".","0",".","1",":","8","0">>,
      <<"[",":",":","1","]",":","8","0">>,
      <<":",":","1">>,
      <<"2","0","0","1",":","d","b","8",":",":","1">>,
      <<"1",":","2",":","3",":","4",":","5",":","6",":","7",":","8">>,
      <<"a",".",".","b">>,
      <<"2","5","6",".","1",".","1",".","1">>,
      <<"0","1",".","1",".","1",".","1">>,
      <<"a","_","b">>,
      <<"r","e","d","i","s",":">>,
      <<"r","e","d","i","s",":","h","t","t","p">>,
      <<":","8","0">>,
      <<"[",":",":","1","]">>,
      <<"m","y","-","s","v","c",".","n","s">>,
      [i \in 1..64 |-> "a"], [i \in 1..63 |-> "a"] }
HostInputs == StringsUpTo(MaxHostLen) \cup HostExamples

InitHost ==
    /\ arg \in HostInputs
    /\ result = NotRun
    /\ NoLoader
    /\ watcher = NoWatcher
    /\ tenants = NoTenants
    /\ shared = NoShared

\* runValidation of the tag "host" on a string field.
RunHostRule ==
    /\ ~result.done
    /\ result' = Ran(validateHost(arg))
    /\ UNCHANGED <<LoaderVars, arg, watcher, tenants, shared>>

NextHost == RunHostRule
SpecHost == InitHost /\ [][NextHost]_vars

\* What the claim reads as a host: the value itself, or what precedes a
\* ":port" suffix, whatever the port (a bracketed literal loses its brackets).
ValidLabel(label) ==
    /\ Len(label) \in 1..63
    /\ AllIn(label, HostLabelChars)
    /\ label[1] /= "-"
    /\ label[Len(label)] /= "-"
ClaimedHosts(s) ==
    LET i == LastIndexOf(s, ":")
        port == From(s, i + 1)
        before == Sub(s, 1, i - 1)
        bracketed == Len(before) >= 2 /\ before[1] = "[" /\ before[Len(before)] = "]"
    IN  {s} \cup
        (IF i > 0 /\ ~Contains(port, "[") /\ ~Contains(port, "]")
         THEN IF bracketed THEN {Sub(before, 2, Len(before) - 1)}
              ELSE IF \A c \in {":", "[", "]"} : ~Contains(before, c) THEN {before}
              ELSE {}
         ELSE {})
ClaimedHostOK(s) ==
    \E h \in ClaimedHosts(s) :
        \/ ParseIP(h)
        \/ \A k \in 1..Len(Split(h, ".")) : ValidLabel(Split(h, ".")[k])

\* C19 as claimed: the host rule accepts a value iff, after an optional :port
\* suffix is split off, the rest is a literal IP address (IPv4 or IPv6), a
\* single-label name or a dotted hostname of valid labels.
C19_HostRuleAcceptsHostsAndIPs ==
    (result.done /\ arg /= <<>>) => (result.val = "" <=> ClaimedHostOK(arg))

\* The part of C19 the tests state: redis, 127.0.0.1, localhost and
\* example.com are accepted, "invalid host" and "-start.com" are rejected.
HostTestCases ==
    { <<<<"r","e","d","i","s">>, TRUE>>, <<<<"1","2","7",".","0",".","0",".","1">>, TRUE>>,
      <<<<"l","o","c","a","l","h","o","s","t">>, TRUE>>, <<<<"e","x","a","m","p","l","e",".","c","o","m">>, TRUE>>,
      <<<<"i","n","v","a","l","i","d"," ","h","o","s","t">>, FALSE>>, <<<<"-","s","t","a","r","t",".","c","o","m">>, FALSE>> }
HostTestsPass ==
    \A t \in HostTestCases : (result.done /\ arg = t[1]) => (result.val = "" <=> t[2])

-----------------------------------------------------------------------------
(* Validate: values, types and errors *)

\* A reflect.Value is a record with its kind: [kind |-> "string", s], [kind |->
\* "int", n], [kind |-> "bool", b], [kind |-> "secret", value] (a SecretValue,
\* of reflect.Struct kind) and [kind |-> "struct", fields].
StringValue(s) == [kind |-> "string", s |-> s]
IntValue(n) == [kind |-> "int", n |-> n]
BoolValue(b) == [kind |-> "bool", b |-> b]
SecretOf(s) == [kind |-> "secret", value |-> s]
StructValue(fields) == [kind |-> "struct", fields |-> fields]
\* reflect.Value.Kind(): a SecretValue is a struct.
Kind(v) == IF v.kind = "secret" THEN "struct" ELSE v.kind

\* A reflect.StructField: name, exported or not, the required and validate
\* tags, and the fields of a nested struct type.
Field(name, exported, required, validate) ==
    [Name |-> name, exported |-> exported, required |-> required, validate |-> validate,
     T |-> <<>>]
Nested(name, fields) ==
    [Name |-> name, exported |-> TRUE, required |-> "", validate |-> <<>>, T |-> fields]

\* ValidationError; Value is kept as the text "%v" prints, Message as its
\* format with the formatted argument in Arg. A field name is the sequence of
\* names that prefix + field.Name joins with dots.
ValidationError(field, value, message, a) ==
    [Field |-> field, Value |-> value, Message |-> message, Arg |-> a]

\* fmt.Sprintf("%v", value.Interface()); a SecretValue prints by String().
Sprint(v) ==
    CASE v.kind = "string" -> v.s
      [] v.kind = "int" -> Itoa(v.n)
      [] v.kind = "bool" -> IF v.b THEN <<"t", "r", "u", "e">> ELSE <<"f", "a", "l", "s", "e">>
      [] v.kind = "secret" -> IF v.value = <<>> THEN <<"[", "e", "m", "p", "t", "y", "]">> ELSE <<"[", "R", "E", "D", "A", "C", "T", "E", "D", "]">>

isZero(v) ==
    CASE v.kind = "string" -> v.s = <<>>
      [] v.kind = "int" -> v.n = 0
      [] v.kind = "bool" -> ~v.b
      [] OTHER -> FALSE

isSpecialType(v) == v.kind = "secret"

-----------------------------------------------------------------------------
(* The rules *)

\* A rule returns <<>> for nil and <<error>> for an error.
validateMin(value, param, fieldName) ==
    LET min == Atoi(param)
    IN  IF ~min.ok
        THEN <<ValidationError(fieldName, param,
                 "invalid min validation parameter: %q is not a valid integer", param)>>
        ELSE IF value.kind \notin {"int", "string"} THEN <<>>
        ELSE LET val == IF value.kind = "int" THEN value.n ELSE Len(value.s)
             IN  IF val < min.v
                 THEN <<ValidationError(fieldName, Itoa(val), "must be at least %d", Itoa(min.v))>>
                 ELSE <<>>

validateMax(value, param, fieldName) ==
    LET max == Atoi(param)
    IN  IF ~max.ok
        THEN <<ValidationError(fieldName, param,
                 "invalid max validation parameter: %q is not a valid integer", param)>>
        ELSE IF value.kind \notin {"int", "string"} THEN <<>>
        ELSE LET val == IF value.kind = "int" THEN value.n ELSE Len(value.s)
             IN  IF val > max.v
                 THEN <<ValidationError(fieldName, Itoa(val), "must be at most %d", Itoa(max.v))>>
                 ELSE <<>>

validatePort(value, fieldName) ==
    LET p == IF value.kind = "string" THEN Atoi(value.s) ELSE [ok |-> TRUE, v |-> 0]
        port == IF value.kind = "int" THEN value.n ELSE p.v
    IN  IF value.kind \notin {"int", "string"} THEN <<>>
        ELSE IF ~p.ok THEN <<ValidationError(fieldName, value.s, "invalid port number", <<>>)>>
        ELSE IF port < 1 \/ port > 65535
        THEN <<ValidationError(fieldName, Itoa(port), "port must be between 1 and 65535", <<>>)>>
        ELSE <<>>

\* net/url getScheme: [ok, scheme, rest].
getScheme(rawURL) ==
    LET inScheme(i) == \/ rawURL[i] \in LowerLetters \cup UpperLetters
                       \/ i > 1 /\ rawURL[i] \in DigitChars \cup {"+", "-", "."}
        stops == {i \in 1..Len(rawURL) : ~inScheme(i)}
        stop == IF stops = {} THEN 0 ELSE CHOOSE i \in stops : \A j \in stops : i <= j
    IN  IF stop = 0 \/ rawURL[stop] /= ":"
        THEN [ok |-> TRUE, scheme |-> <<>>, rest |-> rawURL]
        ELSE IF stop = 1 THEN [ok |-> FALSE, scheme |-> <<>>, rest |-> <<>>]
        ELSE [ok |-> TRUE, scheme |-> Sub(rawURL, 1, stop - 1), rest |-> From(rawURL, stop + 1)]

\* net/url parseHost for a host without "[": an optional ":digits" port, and
\* no character that has to be escaped in a host.
URLHostChars ==
    LowerLetters \cup UpperLetters \cup DigitChars \cup
    {"-", "_", ".", "~", "!", "$", "&", "'", "(", ")", "*", "+", ",", ";", "=", ":", "[", "]",
     "<", ">"}
validOptionalPort(port) ==
    port = <<>> \/ (port[1] = ":" /\ AllIn(Tail(port), DigitChars))
parseHost(host) ==
    /\ LastIndexOf(host, ":") > 0 => validOptionalPort(From(host, LastIndexOf(host, ":")))
    /\ AllIn(host, URLHostChars)

\* url.ParseRequestURI(s) succeeds, for a non-empty s without "%", "?", "@",
\* "[" and control characters.
ParseRequestURI(rawURL) ==
    LET sch == getScheme(rawURL)
        rest == sch.rest
        slash == IndexOf(From(rest, 3), "/")
        authority == IF slash = 0 THEN From(rest, 3) ELSE Sub(rest, 3, slash + 1)
    IN  IF rawURL = <<"*">> THEN TRUE
        ELSE IF ~sch.ok THEN FALSE
        ELSE IF rest = <<>> \/ rest[1] /= "/" THEN sch.scheme /= <<>>
        ELSE IF sch.scheme /= <<>> /\ Len(rest) >= 2 /\ rest[2] = "/" THEN parseHost(authority)
        ELSE TRUE

validateURL(value, fieldName) ==
    IF value.kind /= "string" THEN <<>>
    ELSE IF value.s = <<>> THEN <<>>
    ELSE IF ~ParseRequestURI(value.s)
    THEN <<ValidationError(fieldName, value.s, "invalid URL", <<>>)>>
    ELSE <<>>

\* runValidation of "host" on a field: validateHost, as an error.
validateHostField(value, fieldName) ==
    IF value.kind /= "string" THEN <<>>
    ELSE IF validateHost(value.s) = "" THEN <<>>
    ELSE <<ValidationError(fieldName, value.s, validateHost(value.s), <<>>)>>

\* emailRegex: ^[a-zA-Z0-9._%+-]+@[a-zA-Z0-9.-]+\.[a-zA-Z]{2,}$
EmailLocalChars == LowerLetters \cup UpperLetters \cup DigitChars \cup {".", "_", "%", "+", "-"}
EmailDomainChars == LowerLetters \cup UpperLetters \cup DigitChars \cup {".", "-"}
emailRegex(s) ==
    LET at == IndexOf(s, "@")
        dot == LastIndexOf(s, ".")
    IN  /\ at > 1
        /\ AllIn(Sub(s, 1, at - 1), EmailLocalChars)
        /\ dot > at + 1
        /\ AllIn(Sub(s, at + 1, dot - 1), EmailDomainChars)
        /\ Len(s) - dot >= 2
        /\ AllIn(From(s, dot + 1), LowerLetters \cup UpperLetters)

validateEmail(value, fieldName) ==
    IF value.kind /= "string" THEN <<>>
    ELSE IF value.s = <<>> THEN <<>>
    ELSE IF ~emailRegex(value.s)
    THEN <<ValidationError(fieldName, value.s, "invalid email address", <<>>)>>
    ELSE <<>>

validateOneOf(value, param, fieldName) ==
    LET options == Split(param, "|")
        strVal == Sprint(value)
    IN  IF \E i \in 1..Len(options) : strVal = options[i] THEN <<>>
        ELSE <<ValidationError(fieldName, strVal, "must be one of: %s", param)>>

\* getCompiledRegex for the patterns of the model: [ok, matches], where
\* matches is the set of the strings re.MatchString accepts.
PatLower == <<"^", "[", "a", "-", "z", "]", "+", "$">>
PatBroken == <<"[", "a", "-", "z">>
getCompiledRegex(pattern) ==
    CASE pattern = PatLower -> [ok |-> TRUE, lower |-> TRUE]
      [] pattern = PatBroken -> [ok |-> FALSE, lower |-> FALSE]
MatchString(re, s) == re.lower /\ s /= <<>> /\ AllIn(s, LowerLetters)

validateRegex(value, pattern, fieldName) ==
    IF value.kind /= "string" THEN <<>>
    ELSE IF value.s = <<>> THEN <<>>
    ELSE LET re == getCompiledRegex(pattern)
         IN  IF ~re.ok THEN <<ValidationError(fieldName, pattern, "invalid regex pattern", <<>>)>>
             ELSE IF ~MatchString(re, value.s)
             THEN <<ValidationError(fieldName, value.s, "must match pattern: %s", pattern)>>
             ELSE <<>>

RuleMin == <<"m", "i", "n">>
RuleMax == <<"m", "a", "x">>
RulePort == <<"p", "o", "r", "t">>
RuleURL == <<"u", "r", "l">>
RuleHost == <<"h", "o", "s", "t">>
RuleEmail == <<"e", "m", "a", "i", "l">>
RuleOneOf == <<"o", "n", "e", "o", "f">>
RuleRegex == <<"r", "e", "g", "e", "x">>

runValidation(tag, value, fieldName) ==
    CASE tag.name = RuleMin -> validateMin(value, tag.param, fieldName)
      [] tag.name = RuleMax -> validateMax(value, tag.param, fieldName)
      [] tag.name = RulePort -> validatePort(value, fieldName)
      [] tag.name = RuleURL -> validateURL(value, fieldName)
      [] tag.name = RuleHost -> validateHostField(value, fieldName)
      [] tag.name = RuleEmail -> validateEmail(value, fieldName)
      [] tag.name = RuleOneOf -> validateOneOf(value, tag.param, fieldName)
      [] tag.name = RuleRegex -> validateRegex(value, tag.param, fieldName)
      [] OTHER -> <<>>

\* strings.TrimSpace, for the space character.
RECURSIVE TrimSpace(_)
TrimSpace(s) ==
    IF s = <<>> THEN s
    ELSE IF s[1] = " " THEN TrimSpace(Tail(s))
    ELSE IF s[Len(s)] = " " THEN TrimSpace(Sub(s, 1, Len(s) - 1))
    ELSE s

RECURSIVE parseParts(_)
parseParts(parts) ==
    IF parts = <<>> THEN <<>>
    ELSE LET p == TrimSpace(Head(parts))
             idx == IndexOf(p, "=")
         IN  (IF p = <<>> THEN <<>>
              ELSE IF idx > 1
              THEN <<[name |-> Sub(p, 1, idx - 1), param |-> From(p, idx + 1)]>>
              ELSE <<[name |-> p, param |-> <<>>]>>)
             \o parseParts(Tail(parts))
parseValidationTags(validate) ==
    IF validate = <<>> THEN <<>> ELSE parseParts(Split(validate, ","))

RECURSIVE runTags(_, _, _)
runTags(tags, value, name) ==
    IF tags = <<>> THEN <<>>
    ELSE runValidation(Head(tags), value, name) \o runTags(Tail(tags), value, name)

validateField(field, value, name) ==
    IF isZero(value) THEN <<>>
    ELSE runTags(parseValidationTags(field.validate), value, name)

\* validateStruct from field i on: what it appends to errs.
RECURSIVE validateFields(_, _, _, _)
validateFields(t, v, prefix, i) ==
    IF i > Len(t) THEN <<>>
    ELSE LET field == t[i]
             fieldValue == v.fields[i]
             fieldName == Append(prefix, field.Name)
         IN  (IF ~field.exported THEN <<>>
              ELSE IF Kind(fieldValue) = "struct" /\ ~isSpecialType(fieldValue)
              THEN validateFields(field.T, fieldValue, fieldName, 1)
              ELSE (IF field.required = "true" /\ isZero(fieldValue)
                    THEN <<ValidationError(fieldName, <<>>,
                             "required field is missing or empty", <<>>)>>
                    ELSE <<>>)
                   \o validateField(field, fieldValue, fieldName))
             \o validateFields(t, v, prefix, i + 1)
validateStruct(t, v, prefix) == validateFields(t, v, prefix, 1)

\* What the custom Validate() of the config type returns: the type has no
\* such method, or it returns nil, a ValidationErrors or another error.
NoHook == [impl |-> FALSE, ret |-> "nil", errs |-> <<>>]
HookNil == [impl |-> TRUE, ret |-> "nil", errs |-> <<>>]
HookErrors ==
    [impl |-> TRUE, ret |-> "ValidationErrors",
     errs |-> << ValidationError(<<"hook">>, <<>>, "first", <<>>),
                 ValidationError(<<"hook">>, <<>>, "second", <<>>) >>]
HookEmptyErrors == [impl |-> TRUE, ret |-> "ValidationErrors", errs |-> <<>>]
HookError == [impl |-> TRUE, ret |-> "error", errs |-> <<>>]
Hooks == {NoHook, HookNil, HookErrors, HookEmptyErrors, HookError}

\* Validate(cfg) for a struct cfg = [T, v, hook]: nil or the ValidationErrors.
Validate(cfg) ==
    LET fromFields == validateStruct(cfg.T, cfg.v, <<>>)
        fromHook == IF ~cfg.hook.impl \/ cfg.hook.ret = "nil" THEN <<>>
                    ELSE IF cfg.hook.ret = "ValidationErrors" THEN cfg.hook.errs
                    ELSE <<ValidationError(<<"custom">>, <<>>, "err.Error()", <<>>)>>
        errs == fromFields \o fromHook
    IN  IF Len(errs) > 0 THEN [isNil |-> FALSE, errs |-> errs]
        ELSE [isNil |-> TRUE, errs |-> <<>>]

-----------------------------------------------------------------------------
(* Validate on config objects *)

\* ValidationConfig of validation_test.go.
ValidationConfig ==
    << Field("MinVal", TRUE, "", <<"m", "i", "n", "=", "1", "0">>),
       Field("MaxVal", TRUE, "", <<"m", "a", "x", "=", "1", "0", "0">>),
       Field("Port", TRUE, "", <<"p", "o", "r", "t">>),
       Field("URL", TRUE, "", <<"u", "r", "l">>),
       Field("Email", TRUE, "", <<"e", "m", "a", "i", "l">>),
       Field("OneOf", TRUE, "", <<"o", "n", "e", "o", "f", "=", "a", "|", "b", "|", "c">>),
       Field("Regex", TRUE, "", <<"r", "e", "g", "e", "x", "=", "^", "[", "a", "-", "z", "]", "+", "$">>),
       Field("Host", TRUE, "", <<"h", "o", "s", "t">>),
       Field("Required", TRUE, "true", <<>>),
       Field("Optional", TRUE, "", <<>>) >>
ValidationConfigs ==
    { StructValue(<<IntValue(minVal), IntValue(maxVal), IntValue(port), StringValue(url),
                    StringValue(email), StringValue(oneOf), StringValue(regex),
                    StringValue(host), StringValue(required), StringValue(optional)>>) :
        minVal \in {0, 5, 10}, maxVal \in {0, 101}, port \in {0, 8080, 99999},
        url \in {<<>>, <<"a", ".", "b">>, <<"h", "t", "t", "p", ":", "/", "/", "a", ".", "b">>},
        email \in {<<>>, <<"a", "@", "b", ".", "c", "o">>, <<"a", "b">>},
        oneOf \in {<<>>, <<"a">>, <<"d">>},
        regex \in {<<>>, <<"a", "b", "c">>, <<"A", "1">>},
        host \in {<<>>, <<"r", "e", "d", "i", "s">>, <<":", ":", "1">>},
        required \in {<<>>, <<"x">>},
        optional \in {<<>>, <<"x">>} }

\* A service's config: a required secret, several rules on one field, a
\* nested struct, an unexported field, and rule lists with an empty part, an
\* unknown rule, a parameter that is no integer and a pattern that does not
\* compile.
DBConfig ==
    << Field("Port", TRUE, "true", <<"p", "o", "r", "t">>),
       Field("Host", TRUE, "", <<"h", "o", "s", "t">>) >>
ServiceConfig ==
    << Field("APIKey", TRUE, "true", <<"m", "i", "n", "=", "3">>),
       Field("Name", TRUE, "true", <<"m", "i", "n", "=", "3", ",", " ", "r", "e", "g", "e", "x", "=", "^", "[", "a", "-", "z", "]", "+", "$">>),
       Field("Debug", TRUE, "true", <<>>),
       Nested("DB", DBConfig),
       Field("internal", FALSE, "true", <<"m", "i", "n", "=", "3">>),
       Field("Mode", TRUE, "", <<"o", "n", "e", "o", "f", "=", "d", "e", "v", "|", "p", "r", "o", "d", ",", ",", "n", "o", "s", "u", "c", "h", "r", "u", "l", "e", ",", " ", "m", "i", "n", "=", "x">>),
       Field("Level", TRUE, "", <<"o", "n", "e", "o", "f", "=", "1", "|", "2">>),
       Field("Pattern", TRUE, "", <<"r", "e", "g", "e", "x", "=", "[", "a", "-", "z">>) >>
ServiceConfigs ==
    { StructValue(<<SecretOf(apiKey), StringValue(name), BoolValue(debug),
                    StructValue(<<StringValue(port), StringValue(host)>>),
                    StringValue(internal), StringValue(mode), IntValue(level),
                    StringValue(pattern)>>) :
        apiKey \in {<<>>, <<"k">>}, name \in {<<>>, <<"A">>, <<"a", "b", "c">>}, debug \in BOOLEAN,
        port \in {<<>>, <<"8", "0">>, <<"0">>, <<"x">>}, host \in {<<>>, <<"-", "a">>},
        internal \in {<<>>, <<"x">>}, mode \in {<<>>, <<"d", "e", "v">>, <<"q", "a">>}, level \in {0, 1, 3},
        pattern \in {<<>>, <<"a">>} }

ValidateInputs ==
    {[T |-> ValidationConfig, v |-> v, hook |-> NoHook] : v \in ValidationConfigs}
    \cup {[T |-> ServiceConfig, v |-> v, hook |-> h] : v \in ServiceConfigs, h \in Hooks}

InitValidate ==
    /\ arg \in ValidateInputs
    /\ result = NotRun
    /\ NoLoader
    /\ watcher = NoWatcher
    /\ tenants = NoTenants
    /\ shared = NoShared

\* err := Validate(cfg)
RunValidate ==
    /\ ~result.done
    /\ result' = Ran(Validate(arg))
    /\ UNCHANGED <<LoaderVars, arg, watcher, tenants, shared>>

NextValidate == RunValidate
SpecValidate == InitValidate /\ [][NextValidate]_vars

\* The exported fields of an object that are no nested structs, each with
\* its name, descriptor and value.
RECURSIVE FieldsFrom(_, _, _, _)
FieldsFrom(t, v, prefix, i) ==
    IF i > Len(t) THEN {}
    ELSE (IF ~t[i].exported THEN {}
          ELSE IF v.fields[i].kind = "struct"
          THEN FieldsFrom(t[i].T, v.fields[i], Append(prefix, t[i].Name), 1)
          ELSE {[name |-> Append(prefix, t[i].Name), field |-> t[i], value |-> v.fields[i]]})
         \cup FieldsFrom(t, v, prefix, i + 1)
FieldsOf(cfg) == FieldsFrom(cfg.T, cfg.v, <<>>, 1)

\* Empty, as the claims use the word: the zero value of the field's type
\* (an unset SecretValue is the one that renders as "[empty]").
Empty(v) ==
    CASE v.kind = "string" -> v.s = <<>>
      [] v.kind = "int" -> v.n = 0
      [] v.kind = "bool" -> ~v.b
      [] v.kind = "secret" -> v.value = <<>>

RequiredMessage == "required field is missing or empty"
ErrorsAt(errs, name) == {i \in 1..Len(errs) : errs[i].Field = name}
RuleErrorsAt(errs, name) == {i \in ErrorsAt(errs, name) : errs[i].Message /= RequiredMessage}

\* C18 as claimed: an empty field yields no rule error whatever its rules,
\* and exactly one error iff it is marked required:"true".
C18_EmptyFieldsOnlyFailRequired ==
    result.done =>
        \A f \in FieldsOf(arg) :
            Empty(f.value) =>
                /\ RuleErrorsAt(result.val.errs, f.name) = {}
                /\ Cardinality(ErrorsAt(result.val.errs, f.name))
                       = IF f.field.required = "true" THEN 1 ELSE 0

\* The errors the claim expects: per field, one if it is empty and required,
\* one per failing rule if it is not empty; and those of the hook.
FailingRules(f) == Len(runTags(parseValidationTags(f.field.validate), f.value, f.name))
ExpectedAt(f) ==
    IF Empty(f.value) THEN (IF f.field.required = "true" THEN 1 ELSE 0) ELSE FailingRules(f)
ExpectedFromHook(cfg) ==
    IF ~cfg.hook.impl \/ cfg.hook.ret = "nil" THEN 0
    ELSE IF cfg.hook.ret = "ValidationErrors" THEN Len(cfg.hook.errs)
    ELSE 1
NoneExpected(cfg) ==
    ExpectedFromHook(cfg) = 0 /\ \A f \in FieldsOf(cfg) : ExpectedAt(f) = 0

\* C17 as claimed: one call returns one error for every failing (field, rule)
\* pair of the whole object, nested structs included, one for every empty
\* required field and every error of the custom Validate() hook; it returns
\* nil exactly when there is none.
C17_AllErrorsCollected ==
    result.done =>
        /\ \A f \in FieldsOf(arg) :
               Cardinality(ErrorsAt(result.val.errs, f.name)) = ExpectedAt(f)
        /\ Cardinality({i \in 1..Len(result.val.errs) :
                           \A f \in FieldsOf(arg) : result.val.errs[i].Field /= f.name})
               = ExpectedFromHook(arg)
        /\ result.val.isNil <=> NoneExpected(arg)

-----------------------------------------------------------------------------
(* Watcher and MultiTenantWatcher: Start, Stop and the run goroutine *)

\* Goroutines calling Start and Stop, and the goroutines of "go w.Stop()"
\* that poll starts at the failure ceiling.
WatchCallers == {"a", "b"}
SelfStops == {"self1", "self2"}
WatchProcs == WatchCallers \cup SelfStops
\* The contexts passed to Start: each caller has its own.
Ctxs == {"ctx1", "ctx2"}
CtxOf(p) == IF p = "a" THEN "ctx1" ELSE "ctx2"
\* Start and Stop calls of the callers over one behaviour.
MaxWatchCalls == 3
\* Cap of w.failureCount.
MaxFailureCount == 3
\* The failure ceiling of WithMaxFailures in the runs that have one.
Ceiling == 2
WatcherKinds == {"Watcher", "MultiTenantWatcher"}
NilChan == 0
StopPositions == {"stop_lock", "stop_check", "stop_unlock", "stop_doneCh", "stop_recv"}

\* The watcher after NewWatcher / NewMultiTenantWatcher, with the goroutines
\* around it: chans are the channels made so far (TRUE once closed), tasks the
\* run goroutines started so far, each at its position, taskCtx their contexts.
\* chanCtx (the context of the Start that made a channel), target (w.doneCh
\* when a Stop found the watcher running), failedSince (failed polls since the
\* last successful one), runFailed (failed polls of the run goroutine started
\* last since its start or its last successful poll), succeeded (a poll has
\* succeeded) and last (how a call ended) are history only.
NewWatcher(kind, maxFailures) ==
    [ kind |-> kind,
      mu |-> FALSE,
      running |-> FALSE,
      stopCh |-> NilChan,
      doneCh |-> NilChan,
      failureCount |-> 0,
      maxFailures |-> maxFailures,
      chans |-> <<>>,
      chanCtx |-> <<>>,
      tasks |-> <<>>,
      taskCtx |-> <<>>,
      cancelled |-> {},
      crashed |-> FALSE,
      ncalls |-> 0,
      failedSince |-> 0,
      runFailed |-> 0,
      succeeded |-> FALSE,
      pc |-> [p \in WatchProcs |-> IF p \in SelfStops THEN "unborn" ELSE "idle"],
      ctx |-> [p \in WatchProcs |-> CtxOf(p)],
      d |-> [p \in WatchProcs |-> NilChan],
      target |-> [p \in WatchProcs |-> NilChan],
      last |-> [p \in WatchProcs |-> "none"] ]

InitWatch ==
    /\ \E kind \in WatcherKinds, maxFailures \in {0, Ceiling} :
           /\ kind = "MultiTenantWatcher" => maxFailures = 0
           /\ watcher = NewWatcher(kind, maxFailures)
    /\ tenants = NoTenants
    /\ shared = NoShared
    /\ arg = NoArg
    /\ result = NotRun
    /\ NoLoader

WAt(p, pc) == ~watcher.crashed /\ watcher.pc[p] = pc
WStep(w) == watcher' = w /\ UNCHANGED <<LoaderVars, arg, result, tenants, shared>>
\* The exit of a call: a caller is idle again, the goroutine of go w.Stop() ends.
Returned(p) == IF p \in SelfStops THEN "exited" ELSE "idle"

\* w.Start(ctx)
StartCall(p) ==
    /\ p \in WatchCallers
    /\ WAt(p, "idle")
    /\ watcher.ncalls < MaxWatchCalls
    /\ WStep([watcher EXCEPT !.pc[p] = "start_lock", !.ncalls = @ + 1, !.last[p] = "none"])

\* w.mu.Lock()
StartLock(p) ==
    /\ WAt(p, "start_lock")
    /\ ~watcher.mu
    /\ WStep([watcher EXCEPT !.mu = TRUE, !.pc[p] = "start_check"])

\* if w.running { w.mu.Unlock(); return nil }; w.running = true
StartCheck_NoCheck(p) ==
    /\ WAt(p, "start_check")
    /\ WStep([watcher EXCEPT !.running = TRUE, !.pc[p] = "start_stopCh"])
StartCheck(p) ==
    /\ WAt(p, "start_check")
    /\ IF watcher.running
       THEN WStep([watcher EXCEPT !.mu = FALSE, !.pc[p] = "idle",
                                  !.last[p] = "Start: already running"])
       ELSE WStep([watcher EXCEPT !.running = TRUE, !.pc[p] = "start_stopCh"])

\* w.stopCh = make(chan struct{})
StartMakeStopCh(p) ==
    /\ WAt(p, "start_stopCh")
    /\ WStep([watcher EXCEPT !.chans = Append(@, FALSE), !.stopCh = Len(watcher.chans) + 1,
                             !.chanCtx = Append(@, watcher.ctx[p]),
                             !.pc[p] = "start_doneCh"])

\* w.doneCh = make(chan struct{})
StartMakeDoneCh(p) ==
    /\ WAt(p, "start_doneCh")
    /\ WStep([watcher EXCEPT !.chans = Append(@, FALSE), !.doneCh = Len(watcher.chans) + 1,
                             !.chanCtx = Append(@, watcher.ctx[p]),
                             !.pc[p] = "start_unlock"])

\* w.mu.Unlock()
StartUnlock(p) ==
    /\ WAt(p, "start_unlock")
    /\ WStep([watcher EXCEPT !.mu = FALSE, !.pc[p] = "start_go"])

\* go w.run(ctx); return nil
StartGo(p) ==
    /\ WAt(p, "start_go")
    /\ WStep([watcher EXCEPT !.tasks = Append(@, "select"),
                             !.taskCtx = Append(@, watcher.ctx[p]),
                             !.runFailed = 0,
                             !.pc[p] = "idle", !.last[p] = "Start: started"])

\* w.Stop()
StopCall(p) ==
    /\ p \in WatchCallers
    /\ WAt(p, "idle")
    /\ watcher.ncalls < MaxWatchCalls
    /\ WStep([watcher EXCEPT !.pc[p] = "stop_lock", !.ncalls = @ + 1, !.last[p] = "none"])

\* w.mu.Lock()
StopLock(p) ==
    /\ WAt(p, "stop_lock")
    /\ ~watcher.mu
    /\ WStep([watcher EXCEPT !.mu = TRUE, !.pc[p] = "stop_check"])

\* if !w.running { w.mu.Unlock(); return }; close(w.stopCh): closing a closed
\* channel panics, and the panic ends the program.
StopCheck(p) ==
    /\ WAt(p, "stop_check")
    /\ IF ~watcher.running
       THEN WStep([watcher EXCEPT !.mu = FALSE, !.pc[p] = Returned(p),
                                  !.last[p] = "Stop: not running"])
       ELSE IF watcher.chans[watcher.stopCh]
       THEN WStep([watcher EXCEPT !.crashed = TRUE, !.target[p] = watcher.doneCh])
       ELSE WStep([watcher EXCEPT !.chans[watcher.stopCh] = TRUE, !.pc[p] = "stop_unlock",
                                  !.target[p] = watcher.doneCh])

\* w.mu.Unlock()
StopUnlock(p) ==
    /\ WAt(p, "stop_unlock")
    /\ WStep([watcher EXCEPT !.mu = FALSE, !.pc[p] = "stop_doneCh"])

\* <-w.doneCh: the field is read, without the lock, ...
StopReadDoneCh(p) ==
    /\ WAt(p, "stop_doneCh")
    /\ WStep([watcher EXCEPT !.d[p] = watcher.doneCh, !.pc[p] = "stop_recv"])

\* ... and the receive returns once that channel is closed.
StopRecv_NoWait(p) ==
    /\ WAt(p, "stop_recv")
    /\ WStep([watcher EXCEPT !.pc[p] = Returned(p), !.last[p] = "Stop: waited"])
StopRecv(p) ==
    /\ WAt(p, "stop_recv")
    /\ watcher.chans[watcher.d[p]]
    /\ WStep([watcher EXCEPT !.pc[p] = Returned(p), !.last[p] = "Stop: waited"])

\* cancel() of a context.
CancelCtx ==
    /\ ~watcher.crashed
    /\ \E c \in Ctxs \ watcher.cancelled :
           WStep([watcher EXCEPT !.cancelled = @ \cup {c}])

TaskAt(i, pc) == ~watcher.crashed /\ i \in 1..Len(watcher.tasks) /\ watcher.tasks[i] = pc

\* run: case <-ctx.Done()
RunCtxDone(i) ==
    /\ TaskAt(i, "select")
    /\ watcher.taskCtx[i] \in watcher.cancelled
    /\ WStep([watcher EXCEPT !.tasks[i] = "defer_lock"])

\* run: case <-w.stopCh (the field is read at each turn of the loop)
RunStopRequested(i) ==
    /\ TaskAt(i, "select")
    /\ watcher.chans[watcher.stopCh]
    /\ WStep([watcher EXCEPT !.tasks[i] = "defer_lock"])

\* run: case <-ticker.C: w.poll(ctx) with a failing Reload. At the failure
\* ceiling poll starts go w.Stop().
PollFailed(i) ==
    /\ TaskAt(i, "select")
    /\ watcher.kind = "Watcher"
    /\ ~watcher.mu
    /\ watcher.failureCount < MaxFailureCount
    /\ LET failures == watcher.failureCount + 1
           maxFail == watcher.maxFailures
           w == [watcher EXCEPT !.failureCount = failures, !.failedSince = @ + 1,
                                !.runFailed = @ + 1]
       IN  IF maxFail > 0 /\ failures >= maxFail
           THEN /\ \E s \in SelfStops : watcher.pc[s] = "unborn"
                /\ LET s == CHOOSE r \in SelfStops : watcher.pc[r] = "unborn"
                   IN  WStep([w EXCEPT !.pc[s] = "stop_lock"])
           ELSE WStep(w)

\* run: case <-ticker.C: w.poll(ctx) with a successful Reload.
PollSucceeded_NoReset(i) ==
    /\ TaskAt(i, "select")
    /\ watcher.kind = "Watcher"
    /\ ~watcher.mu
    /\ watcher.failedSince > 0
    /\ WStep([watcher EXCEPT !.failedSince = 0, !.runFailed = 0, !.succeeded = TRUE])
PollSucceeded(i) ==
    /\ TaskAt(i, "select")
    /\ watcher.kind = "Watcher"
    /\ ~watcher.mu
    /\ watcher.failureCount > 0
    /\ WStep([watcher EXCEPT !.failureCount = 0, !.failedSince = 0, !.runFailed = 0,
                             !.succeeded = TRUE])

\* run's deferred function: w.mu.Lock()
DeferLock(i) ==
    /\ TaskAt(i, "defer_lock")
    /\ ~watcher.mu
    /\ WStep([watcher EXCEPT !.mu = TRUE, !.tasks[i] = "defer_running"])

\* w.running = false
DeferRunning(i) ==
    /\ TaskAt(i, "defer_running")
    /\ WStep([watcher EXCEPT !.running = FALSE, !.tasks[i] = "defer_close"])

\* close(w.doneCh)
DeferClose(i) ==
    /\ TaskAt(i, "defer_close")
    /\ IF watcher.chans[watcher.doneCh]
       THEN WStep([watcher EXCEPT !.crashed = TRUE])
       ELSE WStep([watcher EXCEPT !.chans[watcher.doneCh] = TRUE, !.tasks[i] = "defer_unlock"])

\* w.mu.Unlock(), and the goroutine ends.
DeferUnlock(i) ==
    /\ TaskAt(i, "defer_unlock")
    /\ WStep([watcher EXCEPT !.mu = FALSE, !.tasks[i] = "done"])

\* A step of the goroutine p inside Start or Stop, and of the run goroutine i.
ProcStep(p) ==
    \/ StartLock(p) \/ StartCheck(p) \/ StartMakeStopCh(p) \/ StartMakeDoneCh(p)
    \/ StartUnlock(p) \/ StartGo(p)
    \/ StopLock(p) \/ StopCheck(p) \/ StopUnlock(p) \/ StopReadDoneCh(p) \/ StopRecv(p)
TaskStep(i) ==
    \/ RunCtxDone(i) \/ RunStopRequested(i)
    \/ DeferLock(i) \/ DeferRunning(i) \/ DeferClose(i) \/ DeferUnlock(i)

NextWatch ==
    \/ \E p \in WatchProcs : StartCall(p) \/ StopCall(p) \/ ProcStep(p)
    \/ CancelCtx
    \/ \E i \in 1..MaxWatchCalls : TaskStep(i) \/ PollFailed(i) \/ PollSucceeded(i)
SpecWatch == InitWatch /\ [][NextWatch]_vars
\* The watcher between two ticks of its ticker, under a scheduler that lets
\* every goroutine that can take a step take one; whether Start, Stop or
\* cancel are called is left open.
InitStop ==
    /\ InitWatch
    /\ watcher.maxFailures = 0
NextStop ==
    \/ \E p \in WatchProcs : StartCall(p) \/ StopCall(p) \/ ProcStep(p)
    \/ CancelCtx
    \/ \E i \in 1..MaxWatchCalls : TaskStep(i)
SpecStop ==
    /\ InitStop
    /\ [][NextStop]_vars
    /\ \A p \in WatchProcs : WF_vars(ProcStep(p))
    /\ \A i \in 1..MaxWatchCalls : WF_vars(TaskStep(i))

\* The run goroutines that exist, and the Start calls past their check.
LiveTasks == {i \in 1..Len(watcher.tasks) : watcher.tasks[i] /= "done"}
Starting ==
    {p \in WatchCallers :
        watcher.pc[p] \in {"start_stopCh", "start_doneCh", "start_unlock", "start_go"}}
AtMostOneTask == Cardinality(LiveTasks) + Cardinality(Starting) <= 1
\* A Start that finds the watcher running returns at once and touches nothing.
StartOnRunningIsNoOp ==
    \A p \in WatchCallers :
        (watcher.pc[p] = "start_check" /\ watcher.running /\ watcher'.pc[p] /= "start_check")
            => /\ watcher'.pc[p] = "idle"
               /\ watcher'.last[p] = "Start: already running"
               /\ watcher'.stopCh = watcher.stopCh
               /\ watcher'.doneCh = watcher.doneCh
               /\ watcher'.chans = watcher.chans
               /\ watcher'.tasks = watcher.tasks
\* While a run goroutine exists, the channels of the watcher stay.
ChannelsKept ==
    LiveTasks /= {} => (watcher'.stopCh = watcher.stopCh /\ watcher'.doneCh = watcher.doneCh)

\* C20: at most one background polling task exists per watcher at any time;
\* Start on a running watcher returns nil without spawning a second task or
\* replacing the stop/done channels, whatever the interleaving of concurrent
\* Start calls, for Watcher and MultiTenantWatcher alike.
C20_AtMostOnePollingTask ==
    [](AtMostOneTask) /\ [][StartOnRunningIsNoOp /\ ChannelsKept]_vars

\* One Start has not yet spawned its task when a concurrent Start has
\* already returned as a no-op; and a no-op Start next to the running task.
C20_Witness ==
    \E p, q \in WatchCallers :
        /\ watcher.pc[p] = "start_go"
        /\ watcher.last[q] = "Start: already running"

\* C21 as claimed: Stop is idempotent; in particular no interleaving of Stop
\* calls closes the stop channel a second time, which would panic.
C21_StopNeverClosesTwice == ~watcher.crashed

\* The Stop calls that found the watcher running and have returned.
StoppedBy(p) == watcher.last[p] = "Stop: waited"
\* C22: when a Stop call made on a running watcher returns, the run goroutine
\* it stopped has closed doneCh and polls no more; and unless a later Start
\* has begun, the watcher is not running.
C22_StopReturnsAfterTheTaskExited ==
    \A p \in WatchProcs :
        StoppedBy(p) =>
            /\ watcher.chans[watcher.target[p]]
            /\ watcher.doneCh = watcher.target[p] =>
                   /\ \A i \in 1..Len(watcher.tasks) :
                          watcher.tasks[i] \in {"defer_unlock", "done"}
                   /\ Starting = {} => ~watcher.running
\* A Stop that found the watcher running has returned, and the watcher has
\* not been started again.
C22_Witness ==
    \E p \in WatchCallers :
        /\ StoppedBy(p)
        /\ watcher.doneCh = watcher.target[p]
        /\ watcher.tasks = <<"done">>

\* C23 as claimed: with a failure ceiling N > 0 the watcher, never restarted,
\* attempts no (N+1)-th Reload after N consecutive failed ones.
C23_NoReloadPastTheCeiling ==
    (watcher.maxFailures > 0 /\ Len(watcher.tasks) = 1)
        => watcher.failureCount <= watcher.maxFailures

\* C24 as claimed: a self-stop running next to an external Stop or to another
\* self-stop completes without a crash.
C24_SelfStopNeverCrashes ==
    \A s \in SelfStops :
        watcher.pc[s] \in StopPositions \ {"stop_lock"} => ~watcher.crashed

\* C25: the failure counter is the number of failed polls since the last
\* successful one, and go w.Stop() is started only by a poll that brings this
\* number to the ceiling: failures separated by a success do not add up.
SelfStopStarted ==
    \E s \in SelfStops : watcher.pc[s] = "unborn" /\ watcher'.pc[s] /= "unborn"
C25_CounterCountsConsecutiveFailures ==
    /\ [](watcher.kind /= "none" => watcher.failureCount = watcher.failedSince)
    /\ [][SelfStopStarted =>
            (watcher.maxFailures > 0 /\ watcher'.failedSince >= watcher.maxFailures)]_vars
\* A failure, a success and a failure: as many failures as the ceiling, and
\* no self-stop.
C25_Witness ==
    /\ watcher.kind = "Watcher"
    /\ watcher.maxFailures = Ceiling
    /\ watcher.succeeded
    /\ watcher.failureCount = Ceiling - 1
    /\ \A s \in SelfStops : watcher.pc[s] = "unborn"

\* C26 as claimed: once the context of a run goroutine is cancelled the
\* goroutine exits, and a Stop call on a watcher whose context is cancelled
\* returns, also when the watcher is started again in between.
TaskCancelled(i) ==
    IF i <= Len(watcher.tasks) THEN watcher.taskCtx[i] \in watcher.cancelled ELSE FALSE
TaskGone(i) ==
    IF i <= Len(watcher.tasks) THEN watcher.tasks[i] = "done" \/ watcher.crashed ELSE FALSE
StopsCancelled(p) ==
    IF watcher.pc[p] \in {"stop_unlock", "stop_doneCh", "stop_recv"}
    THEN watcher.chanCtx[watcher.target[p]] \in watcher.cancelled
    ELSE FALSE
C26_CancelledWatcherStopsAndStopReturns ==
    /\ \A i \in 1..MaxWatchCalls : TaskCancelled(i) ~> TaskGone(i)
    /\ \A p \in WatchProcs :
           StopsCancelled(p) ~> (watcher.pc[p] = Returned(p) \/ watcher.crashed)

-----------------------------------------------------------------------------
(* The Reload of a watcher poll and the change callbacks *)

\* C27 as claimed: the Reload of a poll invokes the OnChange callbacks only
\* when the configuration it loaded differs from the previous snapshot.
C27_CallbacksOnlyOnChange ==
    \A frame \in Frames :
        (frame.isReload /\ frame.pc = "callback") => frame.old.f /= frame.cfg.f

-----------------------------------------------------------------------------
(* multitenant.go: the multi-tenant loader *)

TenantCallers == {"t1", "t2"}
TenantCodes == {"a", "b", "c"}
\* The order of sort.Strings on the tenant codes.
CodeOrder == <<"a", "b", "c">>
\* LoadEnv, LoadProject and ReloadProjects calls over one behaviour.
MaxTenantCalls == 3
\* Callbacks registered by OnEnvChange, and by OnProjectChange.
MaxTenantCallbacks == 1
\* The nil *E / *P.
NilConfig == 0

\* sort.Strings over the keys of a map (no duplicates).
SortStrings(codes) ==
    LET Member(c) == c \in codes
    IN  SelectSeq(CodeOrder, Member)

NoMap == <<>>
ReloadDiff(added, removed, unchanged) ==
    [Added |-> SortStrings(added), Removed |-> SortStrings(removed),
     Unchanged |-> SortStrings(unchanged)]
NoDiff == [Added |-> <<"-">>, Removed |-> <<"-">>, Unchanged |-> <<"-">>]

\* The locals of a call in progress: code and cfg of LoadEnv / LoadProject;
\* oldCodes, newProjects and reloadErrors of ReloadProjects with the codes its
\* range loop has still to visit (pending).  known, base and refetched record
\* the codes the sweep found, the objects allocated before it and the number of
\* fetchAndParse calls it made per code.
NoLocals ==
    [code |-> "", cfg |-> NilConfig, oldCodes |-> {}, pending |-> {},
     newProjects |-> NoMap, reloadErrors |-> <<>>, diff |-> NoDiff, callbacks |-> 0,
     known |-> {}, base |-> 0, refetched |-> [c \in TenantCodes |-> 0]]
\* What the last call of a goroutine returned.
NoReturn ==
    [op |-> "none", code |-> "", cfg |-> NilConfig, err |-> FALSE, diff |-> NoDiff,
     failed |-> {}, notified |-> 0]

\* The loader after NewMultiTenantLoaderWithProvider(provider, fallback), with
\* the goroutines calling it.  objs is the heap of the *E and *P allocated so
\* far: objs[ptr] is the code the object was mapped for ("" for the *E).
NewMultiTenantLoaderWithProvider(prov, fb) ==
    [ kind |-> "multiTenantLoader",
      provider |-> prov,
      fallback |-> fb,
      envConfig |-> NilConfig,
      projects |-> NoMap,
      projectKeys |-> <<>>,
      envCallbacks |-> 0,
      projectCallbacks |-> 0,
      objs |-> <<>>,
      ncalls |-> 0,
      pc |-> [p \in TenantCallers |-> "idle"],
      loc |-> [p \in TenantCallers |-> NoLocals],
      last |-> [p \in TenantCallers |-> NoReturn] ]

InitTenants ==
    /\ \E prov, fb \in BOOLEAN :
           /\ prov \/ fb
           /\ tenants = NewMultiTenantLoaderWithProvider(prov, fb)
    /\ watcher = NoWatcher
    /\ shared = NoShared
    /\ arg = NoArg
    /\ result = NotRun
    /\ NoLoader

TAt(p, pc) == tenants.pc[p] = pc
TStep(t) == tenants' = t /\ UNCHANGED <<LoaderVars, arg, result, watcher, shared>>
TReturn(t, p, ret) ==
    TStep([t EXCEPT !.pc[p] = "idle", !.loc[p] = NoLocals, !.last[p] = ret])

\* fetchWithFallback reports an error: the primary provider is tried first,
\* then the fallback; the error of the last source tried is returned, and
\* none when there is no source at all.
FetchWithFallbackFails(primaryOK, fallbackOK) ==
    IF tenants.provider /\ primaryOK THEN FALSE
    ELSE IF tenants.fallback /\ fallbackOK THEN FALSE
    ELSE tenants.provider \/ tenants.fallback

\* fetchAndParse, and the same two steps of LoadEnv and LoadProject: the
\* values are fetched and mapped into a new(P).
FetchAndParseFails(primaryOK, fallbackOK, parseOK) ==
    FetchWithFallbackFails(primaryOK, fallbackOK) \/ ~parseOK
\* new(E) / new(P) for code
New(t, code) == [t EXCEPT !.objs = Append(@, code)]

\* l.updateProjectKeys()
UpdateProjectKeys(t) == [t EXCEPT !.projectKeys = SortStrings(DOMAIN t.projects)]

\* l.OnEnvChange(fn)
OnEnvChange ==
    /\ tenants.kind = "multiTenantLoader"
    /\ tenants.envCallbacks < MaxTenantCallbacks
    /\ TStep([tenants EXCEPT !.envCallbacks = @ + 1])

\* l.OnProjectChange(fn)
OnProjectChange ==
    /\ tenants.kind = "multiTenantLoader"
    /\ tenants.projectCallbacks < MaxTenantCallbacks
    /\ TStep([tenants EXCEPT !.projectCallbacks = @ + 1])

TenantCall(p, pc, code) ==
    /\ tenants.kind = "multiTenantLoader"
    /\ TAt(p, "idle")
    /\ tenants.ncalls < MaxTenantCalls
    /\ TStep([tenants EXCEPT !.pc[p] = pc, !.ncalls = @ + 1,
                             !.loc[p] = [NoLocals EXCEPT !.code = code]])

\* l.LoadEnv(ctx)
LoadEnvCall(p) == TenantCall(p, "env_fetch", "")

LoadEnvFetch(p) ==
    /\ tenants.kind = "multiTenantLoader"
    /\ TAt(p, "env_fetch")
    /\ \E primaryOK, fallbackOK, parseOK \in BOOLEAN :
           IF FetchAndParseFails(primaryOK, fallbackOK, parseOK)
           THEN TReturn(tenants, p, [NoReturn EXCEPT !.op = "LoadEnv", !.err = TRUE])
           ELSE LET t == New(tenants, "")
                IN  TStep([t EXCEPT !.pc[p] = "env_store", !.loc[p].cfg = Len(t.objs)])

\* The critical section of LoadEnv and the callbacks after it.
LoadEnvStore(p) ==
    /\ tenants.kind = "multiTenantLoader"
    /\ TAt(p, "env_store")
    /\ LET old == tenants.envConfig
           cfg == tenants.loc[p].cfg
       IN  TReturn([tenants EXCEPT !.envConfig = cfg], p,
                   [NoReturn EXCEPT !.op = "LoadEnv", !.cfg = cfg,
                       !.notified = IF old /= NilConfig THEN tenants.envCallbacks ELSE 0])

\* l.LoadProject(ctx, code)
LoadProjectCall(p, code) == TenantCall(p, "project_fetch", code)

LoadProjectFetch(p) ==
    /\ tenants.kind = "multiTenantLoader"
    /\ TAt(p, "project_fetch")
    /\ \E primaryOK, fallbackOK, parseOK \in BOOLEAN :
           IF FetchAndParseFails(primaryOK, fallbackOK, parseOK)
           THEN TReturn(tenants, p,
                        [NoReturn EXCEPT !.op = "LoadProject", !.err = TRUE,
                                         !.code = tenants.loc[p].code])
           ELSE LET t == New(tenants, tenants.loc[p].code)
                IN  TStep([t EXCEPT !.pc[p] = "project_store", !.loc[p].cfg = Len(t.objs)])

\* The critical section of LoadProject with everything stored but the entry
\* of code dropped.
LoadProjectStore_Replace(p) ==
    /\ tenants.kind = "multiTenantLoader"
    /\ TAt(p, "project_store")
    /\ LET code == tenants.loc[p].code
           cfg == tenants.loc[p].cfg
           t == UpdateProjectKeys([tenants EXCEPT !.projects = code :> cfg])
       IN  TReturn(t, p, [NoReturn EXCEPT !.op = "LoadProject", !.code = code,
                                          !.cfg = cfg])

\* The critical section of LoadProject: l.projects[code] = cfg, updateProjectKeys.
LoadProjectStore(p) ==
    /\ tenants.kind = "multiTenantLoader"
    /\ TAt(p, "project_store")
    /\ LET code == tenants.loc[p].code
           cfg == tenants.loc[p].cfg
           t == UpdateProjectKeys([tenants EXCEPT !.projects = (code :> cfg) @@ @])
       IN  TReturn(t, p, [NoReturn EXCEPT !.op = "LoadProject", !.code = code,
                                          !.cfg = cfg])

\* l.ReloadProjects(ctx)
ReloadProjectsCall(p) == TenantCall(p, "reload_codes", "")

\* The read-locked copy of the keys of l.projects into oldCodes.
ReloadCodes(p) ==
    /\ tenants.kind = "multiTenantLoader"
    /\ TAt(p, "reload_codes")
    /\ LET codes == DOMAIN tenants.projects
       IN  TStep([tenants EXCEPT !.pc[p] = "reload_loop",
                      !.loc[p].oldCodes = codes, !.loc[p].pending = codes,
                      !.loc[p].known = codes, !.loc[p].base = Len(tenants.objs)])

\* One iteration of "for code := range oldCodes" that gives the sweep up at
\* the first failure.
ReloadFetch_Abort(p) ==
    /\ tenants.kind = "multiTenantLoader"
    /\ TAt(p, "reload_loop")
    /\ \E code \in tenants.loc[p].pending :
       \E primaryOK, fallbackOK, parseOK \in BOOLEAN :
           LET visited == [tenants EXCEPT !.loc[p].pending = @ \ {code},
                                          !.loc[p].refetched[code] = @ + 1]
           IN  IF FetchAndParseFails(primaryOK, fallbackOK, parseOK)
               THEN TReturn(visited, p,
                            [NoReturn EXCEPT !.op = "ReloadProjects", !.err = TRUE])
               ELSE LET t == New(visited, code)
                    IN  TStep([t EXCEPT !.loc[p].newProjects =
                                            (code :> Len(t.objs)) @@ @])

\* One iteration of "for code := range oldCodes", in the order the map yields.
ReloadFetch(p) ==
    /\ tenants.kind = "multiTenantLoader"
    /\ TAt(p, "reload_loop")
    /\ \E code \in tenants.loc[p].pending :
       \E primaryOK, fallbackOK, parseOK \in BOOLEAN :
           LET visited == [tenants EXCEPT !.loc[p].pending = @ \ {code},
                                          !.loc[p].refetched[code] = @ + 1]
           IN  IF FetchAndParseFails(primaryOK, fallbackOK, parseOK)
               THEN TStep([visited EXCEPT !.loc[p].reloadErrors = Append(@, code)])
               ELSE LET t == New(visited, code)
                    IN  TStep([t EXCEPT !.loc[p].newProjects =
                                            (code :> Len(t.objs)) @@ @])

\* The same without delete(oldCodes, code): every old code is left for Removed.
ReloadApply_NoDelete(p) ==
    /\ tenants.kind = "multiTenantLoader"
    /\ TAt(p, "reload_loop")
    /\ tenants.loc[p].pending = {}
    /\ LET loc == tenants.loc[p]
           new == DOMAIN loc.newProjects
           unchanged == {code \in new : code \in loc.oldCodes}
           added == {code \in new : code \notin loc.oldCodes}
           t == UpdateProjectKeys([tenants EXCEPT !.projects = loc.newProjects])
       IN  TStep([t EXCEPT !.pc[p] = "reload_notify",
                           !.loc[p].diff = ReloadDiff(added, loc.oldCodes, unchanged),
                           !.loc[p].callbacks = tenants.projectCallbacks])

\* After the loop: the diff is calculated (the codes of newProjects found in
\* oldCodes are deleted from it, what remains is Removed) and sorted, then
\* l.projects = newProjects, updateProjectKeys and the copy of the callbacks
\* under the lock.
ReloadApply(p) ==
    /\ tenants.kind = "multiTenantLoader"
    /\ TAt(p, "reload_loop")
    /\ tenants.loc[p].pending = {}
    /\ LET loc == tenants.loc[p]
           new == DOMAIN loc.newProjects
           unchanged == {code \in new : code \in loc.oldCodes}
           added == {code \in new : code \notin loc.oldCodes}
           removed == loc.oldCodes \ unchanged
           t == UpdateProjectKeys([tenants EXCEPT !.projects = loc.newProjects])
       IN  TStep([t EXCEPT !.pc[p] = "reload_notify",
                           !.loc[p].diff = ReloadDiff(added, removed, unchanged),
                           !.loc[p].callbacks = tenants.projectCallbacks])

\* After the unlock: cb(diff) for the copied callbacks, and return diff, nil.
ReloadReturn(p) ==
    /\ tenants.kind = "multiTenantLoader"
    /\ TAt(p, "reload_notify")
    /\ LET loc == tenants.loc[p]
       IN  TReturn(tenants, p,
                   [NoReturn EXCEPT !.op = "ReloadProjects",
                       !.diff = loc.diff,
                       !.failed = {loc.reloadErrors[i] : i \in 1..Len(loc.reloadErrors)},
                       !.notified = loc.callbacks])

\* l.Project(code)
Project(code) ==
    IF code \in DOMAIN tenants.projects
    THEN [cfg |-> tenants.projects[code], ok |-> TRUE]
    ELSE [cfg |-> NilConfig, ok |-> FALSE]

\* l.ProjectCodes()
ProjectCodes == tenants.projectKeys

TenantStep(p) ==
    \/ LoadEnvFetch(p) \/ LoadEnvStore(p)
    \/ LoadProjectFetch(p) \/ LoadProjectStore(p)
    \/ ReloadCodes(p) \/ ReloadFetch(p) \/ ReloadApply(p) \/ ReloadReturn(p)

NextTenants ==
    \/ OnEnvChange
    \/ OnProjectChange
    \/ \E p \in TenantCallers :
           \/ LoadEnvCall(p)
           \/ \E code \in TenantCodes : LoadProjectCall(p, code)
           \/ ReloadProjectsCall(p)
           \/ TenantStep(p)

SpecTenants == InitTenants /\ [][NextTenants]_vars

-----------------------------------------------------------------------------
(* LoadProject and the stored entries *)

\* The entries of map m other than that of code.
Others(m, code) == [c \in DOMAIN m \ {code} |-> m[c]]
\* The steps in which a LoadProject call returns.
LoadProjectSucceeds(p) == TAt(p, "project_store") /\ tenants'.pc[p] = "idle"
LoadProjectFails(p) == TAt(p, "project_fetch") /\ tenants'.pc[p] = "idle"

\* C28: a successful LoadProject(code) stores its new object as the entry of
\* code and leaves every other tenant entry and the environment object as
\* they were; a LoadProject(code) that fails, in the fetch or in the mapping,
\* changes no stored entry, that of code included, and not the environment.
C28_LoadProjectReplacesOneEntry ==
    [][\A p \in TenantCallers :
          /\ LoadProjectSucceeds(p) =>
                /\ tenants.loc[p].code \in DOMAIN tenants'.projects
                /\ tenants'.projects[tenants.loc[p].code] = tenants.loc[p].cfg
                /\ tenants'.last[p].cfg = tenants.loc[p].cfg
                /\ ~tenants'.last[p].err
                /\ Others(tenants'.projects, tenants.loc[p].code)
                       = Others(tenants.projects, tenants.loc[p].code)
                /\ tenants'.envConfig = tenants.envConfig
          /\ LoadProjectFails(p) =>
                /\ tenants'.last[p].err
                /\ tenants'.projects = tenants.projects
                /\ tenants'.projectKeys = tenants.projectKeys
                /\ tenants'.envConfig = tenants.envConfig]_vars

\* One goroutine's LoadProject has stored a tenant next to another one, and
\* the other goroutine's LoadProject of a stored tenant has failed.
C28_Witness ==
    /\ tenants.kind = "multiTenantLoader"
    /\ \E p, q \in TenantCallers :
           /\ tenants.last[p].op = "LoadProject" /\ ~tenants.last[p].err
           /\ Project(tenants.last[p].code) = [cfg |-> tenants.last[p].cfg, ok |-> TRUE]
           /\ Len(ProjectCodes) = 2
           /\ tenants.last[q].op = "LoadProject" /\ tenants.last[q].err
           /\ Project(tenants.last[q].code).ok
           /\ tenants.last[q].code /= tenants.last[p].code

-----------------------------------------------------------------------------
(* ReloadProjects: the sweep over the known tenants *)

\* The steps in which a ReloadProjects call stores the outcome of its sweep,
\* and in which it returns.
ReloadProjectsStores(p) == TAt(p, "reload_loop") /\ tenants'.pc[p] = "reload_notify"
ReloadProjectsReturns(p) == TAt(p, "reload_notify") /\ tenants'.pc[p] = "idle"
Listed(keys) == {keys[i] : i \in 1..Len(keys)}

RefetchedOnce(p, codes) ==
    \A c \in TenantCodes : tenants.loc[p].refetched[c] = IF c \in codes THEN 1 ELSE 0
SweepOf(p) ==
    IF tenants.kind = "multiTenantLoader" /\ TAt(p, "reload_loop")
    THEN RefetchedOnce(p, tenants.loc[p].known \ tenants.loc[p].pending)
    ELSE TRUE
SweepReturned(p) ==
    IF tenants.kind = "multiTenantLoader" /\ tenants.last[p].op = "ReloadProjects"
    THEN ~tenants.last[p].err /\ tenants.last[p].diff /= NoDiff
    ELSE TRUE

\* C30: a sweep fetches no tenant twice and ends only after it has fetched
\* every tenant code known when it began exactly once, whether the others
\* failed or not; it then stores each tenant whose reload succeeded with the
\* object the sweep mapped for it, and ReloadProjects returns a diff and a
\* nil error.
C30_OneFailureNeverAbortsTheSweep ==
    /\ [](\A p \in TenantCallers : SweepOf(p) /\ SweepReturned(p))
    /\ [][\A p \in TenantCallers :
             ReloadProjectsStores(p) =>
                 /\ RefetchedOnce(p, tenants.loc[p].known)
                 /\ tenants.loc[p].known
                        = Listed(tenants.loc[p].reloadErrors)
                              \cup DOMAIN tenants.loc[p].newProjects
                 /\ \A code \in DOMAIN tenants.loc[p].newProjects :
                        /\ code \in DOMAIN tenants'.projects
                        /\ tenants'.projects[code] = tenants.loc[p].newProjects[code]
                        /\ tenants'.projects[code] > tenants.loc[p].base
                        /\ tenants.objs[tenants'.projects[code]] = code]_vars

\* A sweep over two tenants has returned: one failed, the other was reloaded.
C30_Witness ==
    /\ tenants.kind = "multiTenantLoader"
    /\ \E p \in TenantCallers :
           /\ tenants.last[p].op = "ReloadProjects"
           /\ tenants.last[p].failed /= {}
           /\ Len(tenants.last[p].diff.Unchanged) = 1
           /\ Len(tenants.last[p].diff.Removed) = 1

-----------------------------------------------------------------------------
(* ReloadProjects: the diff *)

\* C31 as claimed: when a sweep returns, every tenant that is stored then and
\* was not stored when the sweep began is reported in Added; a sweep that
\* began with a and b stored and ends with b and c stored returns
\* Added = [c], Removed = [a], Unchanged = [b].
C31_NewTenantsAreReportedAdded ==
    [][\A p \in TenantCallers :
          ReloadProjectsReturns(p) =>
              /\ \A code \in DOMAIN tenants'.projects \ tenants.loc[p].known :
                     code \in Listed(tenants'.last[p].diff.Added)
              /\ (tenants.loc[p].known = {"a", "b"} /\ DOMAIN tenants'.projects = {"b", "c"})
                     => tenants'.last[p].diff = ReloadDiff({"c"}, {"a"}, {"b"})]_vars

\* The place of a code in the order of sort.Strings.
Rank(code) == CHOOSE i \in 1..Len(CodeOrder) : CodeOrder[i] = code
\* Sorted ascending, without duplicates.
Ascending(codes) ==
    \A i, j \in 1..Len(codes) : i < j => Rank(codes[i]) < Rank(codes[j])

\* C32: the diff a sweep calculates has three pairwise disjoint lists, each
\* sorted ascending without duplicates; Unchanged and Removed together are the
\* tenants known when the sweep began, Unchanged and Added together are the
\* tenants the sweep stores, and a tenant known before and stored after is in
\* Unchanged although the sweep stores a new object for it.  The diff
\* returned is the diff calculated.
C32_DiffPartitionsTheTenants ==
    [][\A p \in TenantCallers :
          /\ ReloadProjectsStores(p) =>
                LET diff == tenants'.loc[p].diff
                    added == Listed(diff.Added)
                    removed == Listed(diff.Removed)
                    unchanged == Listed(diff.Unchanged)
                IN  /\ added \cap removed = {}
                    /\ added \cap unchanged = {}
                    /\ removed \cap unchanged = {}
                    /\ Ascending(diff.Added) /\ Ascending(diff.Removed)
                    /\ Ascending(diff.Unchanged)
                    /\ unchanged \cup removed = tenants.loc[p].known
                    /\ unchanged \cup added = DOMAIN tenants'.projects
                    /\ \A code \in tenants.loc[p].known \cap DOMAIN tenants'.projects :
                           /\ code \in unchanged
                           /\ code \in DOMAIN tenants.projects
                                  => tenants'.projects[code] /= tenants.projects[code]
          /\ ReloadProjectsReturns(p) => tenants'.last[p].diff = tenants.loc[p].diff]_vars

\* A sweep over stored tenants has stored its outcome and is about to return
\* a diff with a tenant in Unchanged and another one in Removed.
C32_Witness ==
    /\ tenants.kind = "multiTenantLoader"
    /\ \E p \in TenantCallers :
           /\ TAt(p, "reload_notify")
           /\ tenants.loc[p].diff.Unchanged /= <<>>
           /\ tenants.loc[p].diff.Removed /= <<>>
           /\ Listed(tenants.loc[p].diff.Unchanged) = DOMAIN tenants.projects

-----------------------------------------------------------------------------
(* LoadProject during a sweep *)

\* The last call of q was a LoadProject that fetched, stored and returned
\* after the sweep of p had begun.
LoadedDuringSweep(q, p) ==
    /\ tenants.last[q].op = "LoadProject"
    /\ ~tenants.last[q].err
    /\ tenants.last[q].cfg > tenants.loc[p].base

\* C39 as claimed: when a sweep has stored its outcome, a tenant that a
\* LoadProject stored and returned while the sweep was in progress still has
\* an entry.
C39_LoadDuringSweepIsNotLost ==
    [][\A p, q \in TenantCallers :
          (ReloadProjectsStores(p) /\ LoadedDuringSweep(q, p))
              => tenants.last[q].code \in DOMAIN tenants'.projects]_vars

-----------------------------------------------------------------------------
(* Concurrent reloads and the order of their snapshots *)

\* Two calls, one per goroutine and no third one, have both stored a snapshot
\* and are about to return; the call of p had fetched before that of q did,
\* and the two fetched different values.
BothLoaded(p, q) ==
    /\ calls = 2
    /\ Len(stack[p]) = 1 /\ Len(stack[q]) = 1
    /\ stack[p][1].pc = "done" /\ stack[q][1].pc = "done"
    /\ stack[p][1].err = "" /\ stack[q][1].err = ""
    /\ stack[p][1].id \in stack[q][1].after
    /\ stack[p][1].cfg.f /= stack[q][1].cfg.f

\* C36 as claimed: when two concurrent Load/Reload calls that fetched
\* different values have both finished, Current() is the snapshot of the call
\* that fetched later.
C36_NewerSnapshotIsNotOverwritten ==
    \A p, q \in Procs : BothLoaded(p, q) => Current = stack[q][1].cfg

\* The call of q committed its snapshot right after that of p did, and has
\* begun to invoke its callbacks.
NotifiesAfter(p, q) ==
    /\ stack[p] /= <<>> /\ stack[q] /= <<>>
    /\ stack[p][1].isReload /\ stack[q][1].isReload
    /\ stack[p][1].cfg.ptr /= 0
    /\ stack[q][1].old.ptr = stack[p][1].cfg.ptr
    /\ stack[q][1].inv /= <<>>

\* C37 as claimed: of two Reloads, the one that committed first has completed
\* its callback invocations before the one that committed later begins its own.
C37_NotificationsInCommitOrder ==
    \A p, q \in Procs : NotifiesAfter(p, q) => stack[p][1].pc = "done"

-----------------------------------------------------------------------------
(* The failure counter across runs of a watcher *)

\* C38 as claimed: go w.Stop() is started only by the poll that is the N-th
\* consecutive failed poll of the run goroutine making it, N being the
\* failure ceiling: a watcher started again counts from zero.
C38_EachRunCountsFromZero ==
    [][SelfStopStarted => watcher'.runFailed >= watcher.maxFailures]_vars

-----------------------------------------------------------------------------
(* doppler.go, fallback.go: the providers *)

Fetchers == {"f1", "f2"}
\* The project/config pairs the backend serves; the provider is built for the first.
OwnPair == "proj/dev"
OtherPair == "proj/tenant"
Pairs == {OwnPair, OtherPair}
\* Fetch and FetchProject calls over one behaviour.
MaxFetches == 3
\* Versions of the secrets of one pair at the backend.
MaxVersion == 2
DangerousKey == "__proto__"
\* The key sets of a payload.
KeySets == {{"PORT"}, {"PORT", DangerousKey}}

StatusOK == 200
StatusNotModified == 304
StatusInternalServerError == 500
\* No *http.Response: client.Do returned an error.
NoStatus == 0

\* The nil map[string]string.
NilMap == [nil |-> TRUE, kv |-> <<>>]
MakeMap(kv) == [nil |-> FALSE, kv |-> kv]
\* The ETag the backend gives to a version of the secrets of a pair, and the
\* empty string.
ETag(pair, version) == <<pair, version>>
NoETag == <<>>
\* dopplerSecretsResponse decoded and its raw values extracted: a map from the
\* keys to values that tell which pair and version they belong to.
RawValues(pair, version, keys) ==
    MakeMap([k \in keys |-> [pair |-> pair, version |-> version]])

NoResponse == [status |-> NoStatus, etag |-> NoETag, decodes |-> FALSE,
               body |-> NilMap]
NoFetch == [pair |-> "", ifNoneMatch |-> NoETag, resp |-> NoResponse]
\* What the last call of a goroutine returned, with the status it was
\* answered and whether the payload it read held the dangerous key.
NoResult == [op |-> "none", pair |-> "", status |-> NoStatus, err |-> FALSE,
             values |-> NilMap, dangerous |-> FALSE]

\* The provider after NewDopplerProvider(token, project, config), with the
\* backend (version and keys of the secrets of each pair) and the goroutines
\* fetching from it.
NewDopplerProvider(keys) ==
    [ kind |-> "DopplerProvider",
      cache |-> NilMap,
      etag |-> NoETag,
      fileCache |-> NilMap,
      version |-> [pair \in Pairs |-> 1],
      keys |-> keys,
      ncalls |-> 0,
      pc |-> [g \in Fetchers |-> "idle"],
      loc |-> [g \in Fetchers |-> NoFetch],
      last |-> [g \in Fetchers |-> NoResult] ]

InitProviders ==
    /\ \E keys \in [Pairs -> KeySets] : shared = NewDopplerProvider(keys)
    /\ watcher = NoWatcher
    /\ tenants = NoTenants
    /\ arg = NoArg
    /\ result = NotRun
    /\ NoLoader

PAt(g, pc) == shared.pc[g] = pc
PStep(s) == shared' = s /\ UNCHANGED <<LoaderVars, arg, result, watcher, tenants>>
PReturn(s, g, ret) ==
    PStep([s EXCEPT !.pc[g] = "idle", !.loc[g] = NoFetch, !.last[g] = ret])

\* The secrets of a pair change at the backend.
BackendUpdate(pair) ==
    /\ shared.kind = "DopplerProvider"
    /\ shared.version[pair] < MaxVersion
    /\ \E keys \in KeySets :
           PStep([shared EXCEPT !.version[pair] = @ + 1, !.keys[pair] = keys])

\* p.FetchProject(ctx, project, config): the request is built.
FetchProjectCall(g, pair) ==
    /\ shared.kind = "DopplerProvider"
    /\ PAt(g, "idle")
    /\ shared.ncalls < MaxFetches
    /\ PStep([shared EXCEPT !.pc[g] = "etag", !.ncalls = @ + 1,
                            !.loc[g] = [NoFetch EXCEPT !.pair = pair]])

\* p.Fetch(ctx)
FetchCall(g) == FetchProjectCall(g, OwnPair)

\* Add ETag for caching if available (under the read lock).
ReadETag(g) ==
    /\ shared.kind = "DopplerProvider"
    /\ PAt(g, "etag")
    /\ PStep([shared EXCEPT !.pc[g] = "do", !.loc[g].ifNoneMatch = shared.etag])

\* What the backend answers to a request for pair with this If-None-Match:
\* not modified when the tag is that of the current secrets, else the secrets
\* with or without an ETag header or in a body that does not decode, or a
\* server error.
Responses(pair, ifNoneMatch) ==
    LET tag == ETag(pair, shared.version[pair])
        body == RawValues(pair, shared.version[pair], shared.keys[pair])
    IN  IF ifNoneMatch /= NoETag /\ ifNoneMatch = tag
        THEN {[NoResponse EXCEPT !.status = StatusNotModified]}
        ELSE {[status |-> StatusOK, etag |-> e, decodes |-> d, body |-> body] :
                  e \in {tag, NoETag}, d \in BOOLEAN}
             \cup {[NoResponse EXCEPT !.status = StatusInternalServerError]}

\* resp, err := p.client.Do(req), and the returns on an error, on a status
\* other than 200 and 304, and on a body that does not decode.
Do(g) ==
    /\ shared.kind = "DopplerProvider"
    /\ PAt(g, "do")
    /\ LET loc == shared.loc[g]
           failed(status) == [NoResult EXCEPT !.op = "FetchProject", !.pair = loc.pair,
                                              !.status = status, !.err = TRUE]
       IN  \/ PReturn(shared, g, failed(NoStatus))
           \/ \E resp \in Responses(loc.pair, loc.ifNoneMatch) :
                  IF resp.status = StatusNotModified
                  THEN PStep([shared EXCEPT !.pc[g] = "not_modified", !.loc[g].resp = resp])
                  ELSE IF resp.status /= StatusOK \/ ~resp.decodes
                  THEN PReturn(shared, g, failed(resp.status))
                  ELSE PStep([shared EXCEPT !.pc[g] = "update", !.loc[g].resp = resp])

\* Handle not modified (cache hit): a copy of p.cache, made under the read lock.
NotModified(g) ==
    /\ shared.kind = "DopplerProvider"
    /\ PAt(g, "not_modified")
    /\ PReturn(shared, g,
               [NoResult EXCEPT !.op = "FetchProject", !.pair = shared.loc[g].pair,
                                !.status = StatusNotModified,
                                !.values = MakeMap(shared.cache.kv)])

\* Update cache with new ETag (under the lock), return result, nil.
UpdateCache(g) ==
    /\ shared.kind = "DopplerProvider"
    /\ PAt(g, "update")
    /\ LET resp == shared.loc[g].resp
           s == [shared EXCEPT !.cache = resp.body,
                               !.etag = IF resp.etag /= NoETag THEN resp.etag ELSE @]
       IN  PReturn(s, g,
                   [NoResult EXCEPT !.op = "FetchProject", !.pair = shared.loc[g].pair,
                                    !.status = StatusOK, !.values = resp.body,
                                    !.dangerous = DangerousKey \in DOMAIN resp.body.kv])

\* A JSON value of the fallback file: a string or an object.
JSONText(s) == [kind |-> "string", s |-> s, m |-> <<>>]
JSONObject(m) == [kind |-> "object", s |-> "", m |-> m]
\* What os.ReadFile and json.Unmarshal make of the fallback file.
FileContents ==
    { [exists |-> FALSE, parses |-> FALSE, values |-> <<>>],
      [exists |-> TRUE, parses |-> FALSE, values |-> <<>>],
      [exists |-> TRUE, parses |-> TRUE, values |-> [k \in {"PORT"} |-> JSONText("8080")]],
      [exists |-> TRUE, parses |-> TRUE,
       values |-> [k \in {DangerousKey} |-> JSONText("evil")]],
      [exists |-> TRUE, parses |-> TRUE,
       values |-> [k \in {"server"} |-> JSONObject([j \in {"port"} |-> JSONText("8080")])]] }

\* flattenJSON: nested keys are joined with underscores.
FlattenJSON(prefix, data) ==
    LET fullKey(key) == IF prefix /= "" THEN prefix \o "_" \o key ELSE key
        leaves == {key \in DOMAIN data : data[key].kind = "string"}
        nested == {<<key, inner>> \in (DOMAIN data) \X {"port"} :
                      /\ data[key].kind = "object"
                      /\ inner \in DOMAIN data[key].m}
    IN  [k \in {fullKey(key) : key \in leaves}
               \cup {fullKey(kj[1]) \o "_" \o kj[2] : kj \in nested} |->
            IF \E key \in leaves : fullKey(key) = k
            THEN data[CHOOSE key \in leaves : fullKey(key) = k].s
            ELSE LET kj == CHOOSE kj \in nested : fullKey(kj[1]) \o "_" \o kj[2] = k
                 IN  data[kj[1]].m[kj[2]].s]

\* FileProvider.Fetch / FetchProject: read, parse, flatten, update the cache.
FileFetch(g) ==
    /\ shared.kind = "DopplerProvider"
    /\ PAt(g, "idle")
    /\ shared.ncalls < MaxFetches
    /\ \E file \in FileContents :
           LET s == [shared EXCEPT !.ncalls = @ + 1]
           IN  IF ~file.exists \/ ~file.parses
               THEN PReturn(s, g, [NoResult EXCEPT !.op = "FileProvider.Fetch", !.err = TRUE])
               ELSE LET flat == MakeMap(FlattenJSON("", file.values))
                    IN  PReturn([s EXCEPT !.fileCache = flat], g,
                                [NoResult EXCEPT !.op = "FileProvider.Fetch",
                                    !.values = flat,
                                    !.dangerous = DangerousKey \in DOMAIN file.values])

FetchStep(g) == ReadETag(g) \/ Do(g) \/ NotModified(g) \/ UpdateCache(g)

NextProviders ==
    \/ \E pair \in Pairs : BackendUpdate(pair)
    \/ \E g \in Fetchers :
           \/ FetchCall(g)
           \/ FetchProjectCall(g, OtherPair)
           \/ FetchStep(g)
           \/ FileFetch(g)

SpecProviders == InitProviders /\ [][NextProviders]_vars

\* C33 as claimed: a fetch that read a payload holding the key "__proto__",
\* from the Doppler API or from the fallback file, returns an error and no
\* values.
C33_DangerousKeyIsRejected ==
    shared.kind = "DopplerProvider" =>
        \A g \in Fetchers :
            shared.last[g].dangerous => (shared.last[g].err /\ shared.last[g].values.nil)

\* C34 as claimed: a FetchProject that was answered "not modified" succeeds
\* and returns values of the pair it asked for.
C34_NotModifiedReturnsTheSamePair ==
    shared.kind = "DopplerProvider" =>
        \A g \in Fetchers :
            shared.last[g].status = StatusNotModified =>
                /\ ~shared.last[g].err
                /\ \A k \in DOMAIN shared.last[g].values.kv :
                       shared.last[g].values.kv[k].pair = shared.last[g].pair

-----------------------------------------------------------------------------
\* FeatureFlags (feature_flags.go): a values map and a cache of parsed
\* results behind one RWMutex, read by IsEnabled and replaced by Update.

FlagReaders == {"r1", "r2"}
MaxFlagCalls == 3
MaxUpdates == 2
FlagPrefix == <<"F","_">>
KeyBeta == <<"F","_","B","E","T","A">>
\* Names IsEnabled is asked for: plain, already prefixed, and with a dash.
FlagNames == { <<"b","e","t","a">>, KeyBeta, <<"f","-","b","e","t","a">> }
Wenable == <<"e","n","a","b","l","e">>
\* The maps handed to NewFeatureFlags and Update: the flag on, off, absent,
\* and on under a key of another casing.
FlagMaps ==
    { KeyBeta :> Wtrue, KeyBeta :> Woff, <<>>, ToLower(KeyBeta) :> Wyes }

\* strings.ToUpper, strings.ReplaceAll (one character), strings.HasPrefix,
\* strings.EqualFold.
ToUpper(s) == [i \in 1..Len(s) |-> Upper(s[i])]
ReplaceAll(s, old, new) == [i \in 1..Len(s) |-> IF s[i] = old THEN new ELSE s[i]]
HasPrefix(s, prefix) == Len(s) >= Len(prefix) /\ SubSeq(s, 1, Len(prefix)) = prefix
EqualFold(s, t) == ToLower(s) = ToLower(t)

buildKey(prefix, name) ==
    IF prefix = <<>> THEN name
    ELSE LET n == ReplaceAll(ReplaceAll(ToUpper(name), "-", "_"), " ", "_")
         IN  IF HasPrefix(n, ToUpper(prefix)) THEN n ELSE prefix \o n

parseBool(s) ==
    IF s = <<>> THEN FALSE
    ELSE ToLower(TrimSpace(s)) \in {Wtrue, W1, Wyes, Won, Wenabled, Wenable}

\* The results IsEnabled can compute from a values map: the exact key, or
\* else the first key of another casing the map iteration meets, or else
\* the empty string.
FlagResults(values, name) ==
    LET key == buildKey(FlagPrefix, name)
        folded == {k \in DOMAIN values : EqualFold(k, key)}
    IN  IF key \in DOMAIN values THEN {parseBool(values[key])}
        ELSE IF folded /= {} THEN {parseBool(values[k]) : k \in folded}
        ELSE {parseBool(<<>>)}

NoFlagCall == [name |-> <<>>, result |-> FALSE, epoch |-> 0]
NoFlagResult == [seq |-> 0, name |-> <<>>, result |-> FALSE, epoch |-> 0]

\* NewFeatureFlags(values, prefix); updates counts the Update calls that
\* returned, epoch of a call is that count when the call started.
NewFeatureFlags(values) ==
    [ kind |-> "FeatureFlags",
      values |-> values,
      prefix |-> FlagPrefix,
      cache |-> <<>>,
      updates |-> 0,
      ncalls |-> 0,
      pc |-> [g \in FlagReaders |-> "idle"],
      loc |-> [g \in FlagReaders |-> NoFlagCall],
      last |-> [g \in FlagReaders |-> NoFlagResult] ]

InitFlags ==
    /\ \E values \in FlagMaps : shared = NewFeatureFlags(values)
    /\ watcher = NoWatcher
    /\ tenants = NoTenants
    /\ arg = NoArg
    /\ result = NotRun
    /\ NoLoader

FAt(g, pc) == shared.kind = "FeatureFlags" /\ shared.pc[g] = pc
FStep(s) == shared' = s /\ UNCHANGED <<LoaderVars, arg, result, watcher, tenants>>
FReturn(s, g, name, res, epoch) ==
    FStep([s EXCEPT !.pc[g] = "idle", !.loc[g] = NoFlagCall,
                    !.last[g] = [seq |-> @.seq + 1, name |-> name, result |-> res,
                                 epoch |-> epoch]])

\* IsEnabled(name), the read-locked cache lookup: a hit returns the cached
\* result, a miss goes on without the lock.
IsEnabledCall(g, name) ==
    /\ FAt(g, "idle")
    /\ shared.ncalls < MaxFlagCalls
    /\ LET s == [shared EXCEPT !.ncalls = @ + 1]
       IN  IF name \in DOMAIN shared.cache
           THEN FReturn(s, g, name, shared.cache[name], shared.updates)
           ELSE FStep([s EXCEPT !.pc[g] = "read",
                                !.loc[g] = [name |-> name, result |-> FALSE,
                                            epoch |-> shared.updates]])

\* IsEnabled, the lookup in f.values and parseBool, with no lock held.
ReadValues(g) ==
    /\ FAt(g, "read")
    /\ \E res \in FlagResults(shared.values, shared.loc[g].name) :
           FStep([shared EXCEPT !.pc[g] = "store", !.loc[g].result = res])

\* IsEnabled, the write-locked store of the result in the cache, and the
\* return.
StoreCache(g) ==
    /\ FAt(g, "store")
    /\ LET name == shared.loc[g].name
           res == shared.loc[g].result
           cache == [n \in DOMAIN shared.cache \cup {name} |->
                         IF n = name THEN res ELSE shared.cache[n]]
       IN  FReturn([shared EXCEPT !.cache = cache], g, name, res, shared.loc[g].epoch)

\* Update(values): under the write lock, replace the map and clear the cache.
Update(values) ==
    /\ shared.kind = "FeatureFlags"
    /\ shared.updates < MaxUpdates
    /\ FStep([shared EXCEPT !.values = values, !.cache = <<>>, !.updates = @ + 1])

NextFlags ==
    \/ \E values \in FlagMaps : Update(values)
    \/ \E g \in FlagReaders :
           \/ \E name \in FlagNames : IsEnabledCall(g, name)
           \/ ReadValues(g)
           \/ StoreCache(g)

SpecFlags == InitFlags /\ [][NextFlags]_vars

IsEnabledReturns(g) ==
    /\ shared.kind = "FeatureFlags"
    /\ shared'.last[g].seq /= shared.last[g].seq

\* C35 as claimed: an IsEnabled(name) that started after the last Update
\* returned gives the value the flag has in the map of that Update.
C35_IsEnabledSeesTheUpdate ==
    [][\A g \in FlagReaders :
           (IsEnabledReturns(g) /\ shared'.last[g].epoch = shared.updates) =>
               shared'.last[g].result
                   \in FlagResults(shared.values, shared'.last[g].name)]_vars

-----------------------------------------------------------------------------
\* MockProvider (testing.go): values, per-project values and an error behind
\* one sync.RWMutex, fetched and set by concurrent goroutines.

MockUsers == {"m1", "m2"}
MaxMockCalls == 3
MockKey == "PORT"
MockValues == {"1"}
MockMaps == {NilMap, MakeMap(<<>>)} \cup {MakeMap(MockKey :> v) : v \in MockValues}
Setters == {"SetValue", "SetValues", "SetProjectValues", "SetError", "Clear"}

NoMockCall == [op |-> "none", pair |-> "", values |-> NilMap, err |-> FALSE,
               nested |-> FALSE]
NoMockResult == [op |-> "none", err |-> FALSE, values |-> NilMap]

\* NewMockProvider(values). The RWMutex: rheld counts the read locks a
\* goroutine holds, rwaiting are the goroutines blocked in RLock behind a
\* writer, w is the goroutine that announced or holds the write lock.
NewMockProvider(values) ==
    [ kind |-> "MockProvider",
      values |-> values,
      projects |-> <<>>,
      fetchErr |-> FALSE,
      rheld |-> [g \in MockUsers |-> 0],
      rwaiting |-> {},
      w |-> "none",
      ncalls |-> 0,
      pc |-> [g \in MockUsers |-> "idle"],
      loc |-> [g \in MockUsers |-> NoMockCall],
      last |-> [g \in MockUsers |-> NoMockResult] ]

InitMock ==
    /\ \E values \in MockMaps : shared = NewMockProvider(values)
    /\ watcher = NoWatcher
    /\ tenants = NoTenants
    /\ arg = NoArg
    /\ result = NotRun
    /\ NoLoader

MAt(g, pcs) == shared.kind = "MockProvider" /\ shared.pc[g] \in pcs
MStep(s) == shared' = s /\ UNCHANGED <<LoaderVars, arg, result, watcher, tenants>>
MReturn(s, g, err, values) ==
    MStep([s EXCEPT !.pc[g] = "idle", !.loc[g] = NoMockCall,
                    !.last[g] = [op |-> s.loc[g].op, err |-> err, values |-> values]])
MCall(g, call) ==
    /\ MAt(g, {"idle"})
    /\ shared.ncalls < MaxMockCalls
    /\ MStep([shared EXCEPT !.ncalls = @ + 1, !.loc[g] = call,
                            !.pc[g] = IF call.op \in Setters THEN "lock"
                                      ELSE IF call.op = "Fetch" THEN "f_rlock"
                                      ELSE "fp_rlock"])

MockFetchCall(g) == MCall(g, [NoMockCall EXCEPT !.op = "Fetch"])
MockFetchProjectCall(g, pair) ==
    MCall(g, [NoMockCall EXCEPT !.op = "FetchProject", !.pair = pair])
SetValueCall(g, value) ==
    MCall(g, [NoMockCall EXCEPT !.op = "SetValue", !.values = MakeMap(MockKey :> value)])
SetValuesCall(g, values) ==
    MCall(g, [NoMockCall EXCEPT !.op = "SetValues", !.values = values])
SetProjectValuesCall(g, pair, values) ==
    MCall(g, [NoMockCall EXCEPT !.op = "SetProjectValues", !.pair = pair,
                                !.values = values])
SetErrorCall(g, err) == MCall(g, [NoMockCall EXCEPT !.op = "SetError", !.err = err])
ClearCall(g) == MCall(g, [NoMockCall EXCEPT !.op = "Clear"])

\* sync.RWMutex.RLock: the reader gets the lock unless a writer has announced
\* itself or holds the lock; then it blocks until that writer unlocks.
RLock(g) ==
    /\ MAt(g, {"f_rlock", "fp_rlock"})
    /\ LET body == IF shared.pc[g] = "f_rlock" THEN "f_body" ELSE "fp_body"
           wait == IF shared.pc[g] = "f_rlock" THEN "f_rwait" ELSE "fp_rwait"
       IN  IF shared.w = "none"
           THEN MStep([shared EXCEPT !.rheld[g] = @ + 1, !.pc[g] = body])
           ELSE MStep([shared EXCEPT !.rwaiting = @ \cup {g}, !.pc[g] = wait])

\* FetchProject with the read lock held: the error, the values of the
\* project, or else p.Fetch(ctx) with the read lock still held.
FetchProjectBody(g) ==
    /\ MAt(g, {"fp_body"})
    /\ LET pair == shared.loc[g].pair
           unlocked == [shared EXCEPT !.rheld[g] = @ - 1]
       IN  IF shared.fetchErr THEN MReturn(unlocked, g, TRUE, NilMap)
           ELSE IF pair \in DOMAIN shared.projects
           THEN MReturn(unlocked, g, FALSE, MakeMap(shared.projects[pair].kv))
           ELSE MStep([shared EXCEPT !.pc[g] = "f_rlock", !.loc[g].nested = TRUE])

\* Fetch with the read lock held, its deferred RUnlock, and the deferred
\* RUnlock of the FetchProject that called it.
FetchBody(g) ==
    /\ MAt(g, {"f_body"})
    /\ LET unlocked == [shared EXCEPT !.rheld[g] = 0]
       IN  IF shared.fetchErr THEN MReturn(unlocked, g, TRUE, NilMap)
           ELSE MReturn(unlocked, g, FALSE, MakeMap(shared.values.kv))

\* sync.RWMutex.Lock, first half: the writer takes the writers' mutex and
\* announces itself to the readers.
Lock(g) ==
    /\ MAt(g, {"lock"})
    /\ shared.w = "none"
    /\ MStep([shared EXCEPT !.w = g, !.pc[g] = "locked"])

\* What a setter does to the fields under the write lock.
Set(s, call) ==
    CASE call.op = "SetValue" ->
             [s EXCEPT !.values = MakeMap([k \in DOMAIN @.kv \cup DOMAIN call.values.kv |->
                                               IF k \in DOMAIN call.values.kv
                                               THEN call.values.kv[k] ELSE @.kv[k]])]
      [] call.op = "SetValues" -> [s EXCEPT !.values = call.values]
      [] call.op = "SetProjectValues" ->
             [s EXCEPT !.projects = [q \in DOMAIN @ \cup {call.pair} |->
                                         IF q = call.pair THEN call.values ELSE @[q]]]
      [] call.op = "SetError" -> [s EXCEPT !.fetchErr = call.err]
      [] call.op = "Clear" ->
             [s EXCEPT !.values = MakeMap(<<>>), !.projects = <<>>, !.fetchErr = FALSE]

\* sync.RWMutex.Lock, second half, once the readers that held the lock have
\* left; the setter; and Unlock, which lets the blocked readers in.
SetterBody(g) ==
    /\ MAt(g, {"locked"})
    /\ shared.w = g
    /\ \A r \in MockUsers : shared.rheld[r] = 0
    /\ LET s == Set(shared, shared.loc[g])
           released == [r \in MockUsers |->
                            IF r \notin s.rwaiting THEN s.pc[r]
                            ELSE IF s.pc[r] = "f_rwait" THEN "f_body" ELSE "fp_body"]
       IN  MReturn([s EXCEPT !.w = "none",
                             !.rheld = [r \in MockUsers |->
                                            IF r \in s.rwaiting THEN 1 ELSE 0],
                             !.rwaiting = {},
                             !.pc = released],
                   g, FALSE, NilMap)

MockStep(g) ==
    RLock(g) \/ FetchProjectBody(g) \/ FetchBody(g) \/ Lock(g) \/ SetterBody(g)

NextMock ==
    \E g \in MockUsers :
        \/ MockFetchCall(g)
        \/ \E pair \in Pairs : MockFetchProjectCall(g, pair)
        \/ \E value \in MockValues : SetValueCall(g, value)
        \/ \E values \in MockMaps : SetValuesCall(g, values)
        \/ \E pair \in Pairs, values \in MockMaps : SetProjectValuesCall(g, pair, values)
        \/ \E err \in BOOLEAN : SetErrorCall(g, err)
        \/ ClearCall(g)
        \/ MockStep(g)

\* Every goroutine that can take a step takes it in the end.
SpecMock ==
    /\ InitMock
    /\ [][NextMock]_vars
    /\ \A g \in MockUsers : WF_vars(MockStep(g))

\* A FetchProject call that found no values of its project and goes on in
\* Fetch; a goroutine between two calls.
Delegating(g) ==
    IF shared.kind = "MockProvider"
    THEN shared.loc[g].op = "FetchProject" /\ shared.loc[g].nested
    ELSE FALSE
MockIdle(g) == IF shared.kind = "MockProvider" THEN shared.pc[g] = "idle" ELSE TRUE

\* C40 as claimed: every FetchProject call that delegates to Fetch returns,
\* whatever the setters do concurrently.
C40_DelegatingFetchProjectReturns ==
    \A g \in MockUsers : Delegating(g) ~> MockIdle(g)

====
